---- MODULE Spec2Model ----
(***************************************************************************)
(* A model of the batch operations and the resource-handle caches of the   *)
(* example applications under src/apps:                                    *)
(*   331b83bdbfe63d75  UserRegistrationService.bulk_register_users         *)
(*   ad03f95fc72b1791  MovieCatalogService.bulk_import_movies              *)
(*   62707d3237ff9c70  UserManagementSystem.batch_create_users             *)
(*   ced9dfcb174c6a53  DocumentProcessingPipeline.process_image_batch      *)
(*   d02637494b9688ec  TransactionProcessor.batch_publish_transactions     *)
(*   12a2e723c7476f59  OrderProcessingSystem.get_queue_url/get_topic_arn   *)
(* The remote services (HTTP API, DynamoDB, S3, EventBridge, SQS, SNS) are *)
(* the environment: every call to one of them is a nondeterministic choice *)
(* among the outcomes the client can observe.                              *)
(***************************************************************************)
EXTENDS Integers, Sequences, FiniteSets, TLC

VARIABLES
    reg,         \* one run of bulk_register_users
    imp,         \* one run of bulk_import_movies (and the service's api_endpoint)
    bcu,         \* one run of batch_create_users
    img,         \* one run of process_image_batch
    pub,         \* one run of batch_publish_transactions
    queue_urls,  \* OrderProcessingSystem._queue_urls
    topic_arns,  \* OrderProcessingSystem._topic_arns
    clog,        \* history: the sequential calls made on the cache
    thr,         \* the threads calling get_queue_url concurrently
    hist,        \* history of the concurrent calls
    par,         \* one run of a parallel runBatch
    pso,         \* one call of _process_single_order
    sqs_queue,   \* the messages of the order-processing queue
    po,          \* one run of process_orders
    users_table, \* the DynamoDB users table, by UserId
    uu,          \* the last call of create_user, update_user or delete_user
    ec2,         \* the security groups and instances of the VPC
    dep,         \* one run of deploy_full_application
    now,         \* the clock, in seconds (6.2: time.time(), datetime.utcnow())
    waf_log_bucket, \* the WAF log objects of the bucket, by key
    wf,          \* the runs of process_security_automation_workflow
    blacklist,   \* the addresses of the blacklist IP set
    ips,         \* one call of update_ip_sets_from_analysis
    ana,         \* one call of analyze_threat_patterns
    life,        \* one run of simulate_user_lifecycle
    instance_state, \* the state EC2 reports for each instance
    wt,          \* one run of wait_for_instances_running
    svc          \* the last call on the MovieCatalogService besides the bulk import

vars == <<reg, imp, bcu, img, pub, queue_urls, topic_arns, clog, thr, hist,
          par, pso, sqs_queue, po, users_table, uu, ec2, dep, now,
          waf_log_bucket, wf, blacklist, ips, ana, life, instance_state, wt,
          svc>>

(* ------------------------------ bounds ------------------------------- *)

\* longest input list of a batch operation
MaxBatch == 3
\* items the DynamoDB batch writer buffers before it flushes by itself
FlushAmount == 2
\* most items of one order
MaxItems == 2
\* most messages the order-processing queue holds
MaxQueued == 3
\* most public and most private subnets of the VPC
MaxSubnets == 2
\* calls of deploy_full_application on one VPC
MaxDeploys == 2
\* most entries of a WAF log
MaxLog == 2
\* the last second of the clock
MaxTime == 3
\* seconds of an hour, scaled down
HourLength == 2
\* longest timeout of wait_for_instances_running, in seconds
MaxTimeout == 10
\* longest list of transactions handed to batch_publish_transactions
MaxTx == 21
\* calls made one after the other on one OrderProcessingSystem
MaxCalls == 4
\* calls each thread makes on a shared OrderProcessingSystem
MaxThreadCalls == 2

(* ----------------------------- constants ----------------------------- *)

\* a key the dict does not hold / Python's None
Missing == "<missing>"
None == "None"

\* the sequences over S of length at most n
SeqsUpTo(S, n) == UNION {[1..k -> S] : k \in 0..n}

(* =================== bulk_register_users (331b...) =================== *)

\* user_data dicts: 'email' may be absent; "rest" says whether name, company
\* and role are all there
UserData == [email : {"a@x", "b@x", Missing}, rest : BOOLEAN]

\* what the POST /register can do
HttpOutcomes == {"ok", "http_error", "request_exception"}

\* register_user(user_data): User(**user_data) needs all four fields, then the
\* POST decides. [ok |-> TRUE, value] on return, [ok |-> FALSE, error] on raise.
RegisterUser(u, out, rid) ==
    IF u.email = Missing \/ ~u.rest
    THEN [ok |-> FALSE, error |-> "TypeError"]
    ELSE IF out = "ok"
    THEN [ok |-> TRUE, value |-> [registration_id |-> rid]]
    ELSE IF out = "http_error"
    THEN [ok |-> FALSE, error |-> "Registration failed with status"]
    ELSE [ok |-> FALSE, error |-> "RequestException"]

\* the except branch of the loop body: user_data['email'] is read again
RegisterFailed(r, u, err) ==
    IF u.email = Missing
    THEN [r EXCEPT !.pc = "raised", !.exc = "KeyError: 'email'"]
    ELSE [r EXCEPT !.failed = Append(@, [email |-> u.email, error |-> err]),
                   !.i = @ + 1]

\* one iteration of the for loop of bulk_register_users
BulkRegisterItem(r, out) ==
    LET u   == r.users[r.i]
        res == RegisterUser(u, out, r.i)
        r1  == [r EXCEPT !.attempted = Append(@, r.i)]
    IN  IF res.ok
        THEN [r1 EXCEPT !.successful =
                          Append(@, [email |-> u.email,
                                     registration_id |-> res.value.registration_id]),
                        !.i = @ + 1]
        ELSE RegisterFailed(r1, u, res.error)

\* a variant without the guard: 0 / 0 for an empty list
SuccessRateUnguarded(r) == <<Len(r.successful), Len(r.users)>>

\* len(successful) / len(users) if users else 0, as numerator and denominator
SuccessRate(r) ==
    IF Len(r.users) # 0 THEN <<Len(r.successful), Len(r.users)>> ELSE <<0, 1>>

RegIdle ==
    [pc |-> "idle", users |-> <<>>, i |-> 1, successful |-> <<>>, failed |-> <<>>,
     total_processed |-> 0, success_rate |-> <<0, 1>>, attempted |-> <<>>,
     exc |-> None]

(* ==================== bulk_import_movies (ad03...) ==================== *)

MovieData == [title : {"Alien", Missing}, year : {"1979", Missing}]

\* get_apis finds the API or not; the POST answers 200 or fails
DiscoverOutcomes == {"found", "not_found"}
PostOutcomes == {"ok", "failed"}

\* discover_api_endpoint: sets api_endpoint when an API matches, raises otherwise
DiscoverApiEndpoint(endpoint, d) ==
    IF d = "found"
    THEN [ok |-> TRUE, api_endpoint |-> "http://localstack/api/movies"]
    ELSE [ok |-> FALSE, api_endpoint |-> endpoint]

\* add_movie_via_api: discovery when api_endpoint is unset, then the POST
AddMovieViaApi(endpoint, d, p) ==
    LET disc == IF endpoint = None THEN DiscoverApiEndpoint(endpoint, d)
                ELSE [ok |-> TRUE, api_endpoint |-> endpoint]
    IN  IF ~disc.ok
        THEN [ok |-> FALSE, api_endpoint |-> disc.api_endpoint, listed |-> TRUE,
              error |-> "API Gateway not found"]
        ELSE [ok |-> p = "ok", api_endpoint |-> disc.api_endpoint,
              listed |-> endpoint = None,
              error |-> IF p = "ok" THEN None ELSE "API request failed"]

\* movie['title'] and movie['year'] can be formatted into a message
HasTitleYear(m) == m.title # Missing /\ m.year # Missing

\* the except branch: failed += 1, then the message reads title and year again
ImportFailed(r, m, err) ==
    IF HasTitleYear(m)
    THEN [r EXCEPT !.failed = @ + 1, !.errors = Append(@, err), !.i = @ + 1]
    ELSE [r EXCEPT !.failed = @ + 1, !.pc = "raised", !.exc = "KeyError"]

\* one iteration of the for loop of bulk_import_movies
BulkImportItem(r, d, p) ==
    LET m   == r.movies[r.i]
        res == AddMovieViaApi(r.api_endpoint, d, p)
        r1  == [r EXCEPT !.attempted = Append(@, r.i),
                         !.api_endpoint = res.api_endpoint,
                         !.listings = @ + (IF res.listed THEN 1 ELSE 0)]
    IN  IF res.ok
        THEN \* success += 1, then the log line formats title and year in the try
             IF HasTitleYear(m)
             THEN [r1 EXCEPT !.success = @ + 1, !.i = @ + 1]
             ELSE ImportFailed([r1 EXCEPT !.success = @ + 1], m, "KeyError")
        ELSE ImportFailed(r1, m, res.error)

ImpIdle ==
    [pc |-> "idle", movies |-> <<>>, i |-> 1, success |-> 0, failed |-> 0,
     errors |-> <<>>, attempted |-> <<>>, api_endpoint |-> None, listings |-> 0,
     exc |-> None]

(* ----- add_movie_via_api, discover_api_endpoint, health_check (ad03...) ----- *)

\* the last call on the service whose api_endpoint imp holds: before and
\* after are the api_endpoint the call found and left, listed whether it
\* called get_apis
SvcIdle ==
    [op |-> None, before |-> None, after |-> None, listed |-> FALSE, ok |-> FALSE]

\* the service after a call that ended with res, and the record of the call
SvcCall(op, res, listed) ==
    /\ imp.pc \in {"returned", "raised", "idle"} /\ imp.listings < MaxCalls
    /\ imp' = [imp EXCEPT !.api_endpoint = res.api_endpoint,
                          !.listings = @ + (IF listed THEN 1 ELSE 0)]
    /\ svc' = [op |-> op, before |-> imp.api_endpoint,
               after |-> res.api_endpoint, listed |-> listed, ok |-> res.ok]

CallAddMovieViaApi ==
    /\ \E d \in DiscoverOutcomes, p \in PostOutcomes :
          LET res == AddMovieViaApi(imp.api_endpoint, d, p)
          IN  SvcCall("add_movie_via_api", res, res.listed)
    /\ UNCHANGED <<reg, bcu, img, pub, queue_urls, topic_arns, clog, thr, hist,
                   par, pso, sqs_queue, po, users_table, uu, ec2, dep, now,
                   waf_log_bucket, wf, blacklist, ips, ana, life,
                   instance_state, wt>>

\* discover_api_endpoint lists the APIs whatever api_endpoint holds
CallDiscoverApiEndpoint ==
    /\ \E d \in DiscoverOutcomes :
          SvcCall("discover_api_endpoint",
                  DiscoverApiEndpoint(imp.api_endpoint, d), TRUE)
    /\ UNCHANGED <<reg, bcu, img, pub, queue_urls, topic_arns, clog, thr, hist,
                   par, pso, sqs_queue, po, users_table, uu, ec2, dep, now,
                   waf_log_bucket, wf, blacklist, ips, ana, life,
                   instance_state, wt>>

\* health_check: the API Gateway check is a call of discover_api_endpoint
\* whose exception is dropped
CallHealthCheck ==
    /\ \E d \in DiscoverOutcomes :
          SvcCall("health_check", DiscoverApiEndpoint(imp.api_endpoint, d), TRUE)
    /\ UNCHANGED <<reg, bcu, img, pub, queue_urls, topic_arns, clog, thr, hist,
                   par, pso, sqs_queue, po, users_table, uu, ec2, dep, now,
                   waf_log_bucket, wf, blacklist, ips, ana, life,
                   instance_state, wt>>

(* ==================== batch_create_users (6270...) ==================== *)

\* user dicts of the user management system: 'UserId' may be absent
UserRecord == [UserId : {"u1", "u2", Missing}]

\* what a flush of the batch writer (one batch_write_item call) can do
FlushOutcomes == {"written", "client_error"}

\* batch.put_item(Item=...): buffers the item and, with FlushAmount items
\* buffered, sends them; a failed send raises out of put_item and the items
\* taken from the buffer are gone
BatchPutItem(r, u, f) ==
    LET buf == Append(r.buffer, u)
    IN  IF Len(buf) >= FlushAmount
        THEN IF f = "written"
             THEN [raised |-> FALSE,
                   r |-> [r EXCEPT !.buffer = <<>>, !.table = @ \o buf]]
             ELSE [raised |-> TRUE, r |-> [r EXCEPT !.buffer = <<>>]]
        ELSE [raised |-> FALSE, r |-> [r EXCEPT !.buffer = buf]]

\* one iteration of the for loop inside the with block of batch_create_users
BatchCreateItem(r, f) ==
    LET u   == r.users[r.i]
        put == BatchPutItem(r, u, f)
        r1  == [put.r EXCEPT !.i = @ + 1]
    IN  IF put.raised
        THEN [r1 EXCEPT !.failed =
                 Append(@, [userId |-> IF u.UserId = Missing THEN "unknown"
                                        ELSE u.UserId,
                            error |-> "ClientError"])]
        ELSE IF u.UserId = Missing
        THEN \* successful_users.append(user_data['UserId']) raises KeyError
             [r1 EXCEPT !.failed =
                 Append(@, [userId |-> "unknown", error |-> "KeyError: 'UserId'"])]
        ELSE [r1 EXCEPT !.successful = Append(@, u.UserId)]

\* leaving the with block flushes what is buffered; a failed flush is caught by
\* the outer except, which returns {'success': False, 'error': ...}
BatchCreateExit(r, f) ==
    IF r.buffer = <<>>
    THEN [r EXCEPT !.pc = "returned", !.success = TRUE]
    ELSE IF f = "written"
    THEN [r EXCEPT !.pc = "returned", !.success = TRUE, !.buffer = <<>>,
                   !.table = @ \o r.buffer]
    ELSE [r EXCEPT !.pc = "returned", !.success = FALSE, !.buffer = <<>>,
                   !.error = "ClientError"]

BcuIdle ==
    [pc |-> "idle", users |-> <<>>, i |-> 1, successful |-> <<>>, failed |-> <<>>,
     buffer |-> <<>>, table |-> <<>>, success |-> FALSE, error |-> None]

(* =================== process_image_batch (ced9...) =================== *)

\* (image_content, filename) tuples; the content by its length
ImageData == [filename : {"a.jpg", "b.png"}, size : {"1kB", "2kB"}]

PutObjectOutcomes == {"stored", "exception"}

\* the absent 'key' of a failed upload: upload_result.get('key') is None
NoKey == <<>>

\* upload_image -> upload_document: put_object under images/<filename>; every
\* exception is turned into {'success': False, 'error': str(e)}
UploadImage(im, o) ==
    IF o = "stored"
    THEN [success |-> TRUE, key |-> <<"images", im.filename>>, size |-> im.size]
    ELSE [success |-> FALSE, error |-> "put_object failed"]

\* the entry process_image_batch appends for one image
ImageResult(im, upload_result) ==
    [filename |-> im.filename,
     upload_success |-> upload_result.success,
     size |-> im.size,
     key |-> IF "key" \in DOMAIN upload_result THEN upload_result.key ELSE NoKey]

\* one iteration of the for loop of process_image_batch
ProcessImageItem(r, o) ==
    LET im == r.images[r.i]
        up == UploadImage(im, o)
    IN  [r EXCEPT !.results = Append(@, ImageResult(im, up)),
                  !.uploads = Append(@, up),
                  !.i = @ + 1]

ImgIdle ==
    [pc |-> "idle", images |-> <<>>, i |-> 1, results |-> <<>>, uploads |-> <<>>,
     batch_size |-> 0, processing_triggered |-> FALSE]

(* ================ batch_publish_transactions (d026...) ================ *)

\* EventBridge supports up to 10 events per batch
batch_size == 10

PutEventsOutcomes == {"response", "exception"}

\* a variant of the slice that is one entry short
ChunkShort(i, n) == {k \in 0..(n - 1) : i <= k /\ k < i + batch_size - 1}

\* transactions[i:i + batch_size] of a list of n transactions, by the 0-based
\* positions it holds
Chunk(i, n) == {k \in 0..(n - 1) : i <= k /\ k < i + batch_size}

\* a variant that swallows the exception and goes on with the next chunk
PublishFailedSwallowed(r, batch) == [r EXCEPT !.i = @ + batch_size]

\* the except branch around put_events: log, then raise
PublishFailed(r, batch) ==
    [r EXCEPT !.pc = "raised", !.exc = "put_events failed"]

\* one iteration of the for loop over range(0, len(transactions), batch_size)
PublishChunk(r, o) ==
    LET batch == Chunk(r.i, r.n)
        r1    == [r EXCEPT !.sent = Append(@, batch)]
    IN  IF o = "response"
        THEN [r1 EXCEPT !.responses = Append(@, [Entries |-> batch]),
                        !.i = @ + batch_size]
        ELSE PublishFailed(r1, batch)

PubIdle ==
    [pc |-> "idle", n |-> 0, i |-> 0, responses |-> <<>>, sent |-> <<>>,
     exc |-> None]

(* ------------------- the batch operations as actions ------------------- *)

BatchesIdle ==
    /\ reg.pc = "idle" /\ imp.pc = "idle" /\ bcu.pc = "idle"
    /\ img.pc = "idle" /\ pub.pc = "idle"

CallBulkRegisterUsers ==
    /\ BatchesIdle
    /\ \E users \in SeqsUpTo(UserData, MaxBatch) :
          reg' = [RegIdle EXCEPT !.pc = "loop", !.users = users,
                                 !.total_processed = Len(users)]
    /\ UNCHANGED <<imp, bcu, img, pub, queue_urls, topic_arns, clog, thr, hist,
                   par, pso, sqs_queue, po, users_table, uu, ec2, dep, now,
                   waf_log_bucket, wf, blacklist, ips, ana, life,
                   instance_state, wt, svc>>

BulkRegisterStep ==
    /\ reg.pc = "loop" /\ reg.i <= Len(reg.users)
    /\ \E out \in HttpOutcomes : reg' = BulkRegisterItem(reg, out)
    /\ UNCHANGED <<imp, bcu, img, pub, queue_urls, topic_arns, clog, thr, hist,
                   par, pso, sqs_queue, po, users_table, uu, ec2, dep, now,
                   waf_log_bucket, wf, blacklist, ips, ana, life,
                   instance_state, wt, svc>>

BulkRegisterReturn ==
    /\ reg.pc = "loop" /\ reg.i > Len(reg.users)
    /\ reg' = [reg EXCEPT !.pc = "returned", !.success_rate = SuccessRate(reg)]
    /\ UNCHANGED <<imp, bcu, img, pub, queue_urls, topic_arns, clog, thr, hist,
                   par, pso, sqs_queue, po, users_table, uu, ec2, dep, now,
                   waf_log_bucket, wf, blacklist, ips, ana, life,
                   instance_state, wt, svc>>

CallBulkImportMovies ==
    /\ BatchesIdle
    /\ \E movies \in SeqsUpTo(MovieData, MaxBatch) :
          imp' = [ImpIdle EXCEPT !.pc = "loop", !.movies = movies]
    /\ UNCHANGED <<reg, bcu, img, pub, queue_urls, topic_arns, clog, thr, hist,
                   par, pso, sqs_queue, po, users_table, uu, ec2, dep, now,
                   waf_log_bucket, wf, blacklist, ips, ana, life,
                   instance_state, wt, svc>>

BulkImportStep ==
    /\ imp.pc = "loop" /\ imp.i <= Len(imp.movies)
    /\ \E d \in DiscoverOutcomes, p \in PostOutcomes :
          imp' = BulkImportItem(imp, d, p)
    /\ UNCHANGED <<reg, bcu, img, pub, queue_urls, topic_arns, clog, thr, hist,
                   par, pso, sqs_queue, po, users_table, uu, ec2, dep, now,
                   waf_log_bucket, wf, blacklist, ips, ana, life,
                   instance_state, wt, svc>>

BulkImportReturn ==
    /\ imp.pc = "loop" /\ imp.i > Len(imp.movies)
    /\ imp' = [imp EXCEPT !.pc = "returned"]
    /\ UNCHANGED <<reg, bcu, img, pub, queue_urls, topic_arns, clog, thr, hist,
                   par, pso, sqs_queue, po, users_table, uu, ec2, dep, now,
                   waf_log_bucket, wf, blacklist, ips, ana, life,
                   instance_state, wt, svc>>

CallBatchCreateUsers ==
    /\ BatchesIdle
    /\ \E users \in SeqsUpTo(UserRecord, MaxBatch) :
          bcu' = [BcuIdle EXCEPT !.pc = "loop", !.users = users]
    /\ UNCHANGED <<reg, imp, img, pub, queue_urls, topic_arns, clog, thr, hist,
                   par, pso, sqs_queue, po, users_table, uu, ec2, dep, now,
                   waf_log_bucket, wf, blacklist, ips, ana, life,
                   instance_state, wt, svc>>

BatchCreateStep ==
    /\ bcu.pc = "loop" /\ bcu.i <= Len(bcu.users)
    /\ \E f \in FlushOutcomes : bcu' = BatchCreateItem(bcu, f)
    /\ UNCHANGED <<reg, imp, img, pub, queue_urls, topic_arns, clog, thr, hist,
                   par, pso, sqs_queue, po, users_table, uu, ec2, dep, now,
                   waf_log_bucket, wf, blacklist, ips, ana, life,
                   instance_state, wt, svc>>

BatchCreateReturn ==
    /\ bcu.pc = "loop" /\ bcu.i > Len(bcu.users)
    /\ \E f \in FlushOutcomes : bcu' = BatchCreateExit(bcu, f)
    /\ UNCHANGED <<reg, imp, img, pub, queue_urls, topic_arns, clog, thr, hist,
                   par, pso, sqs_queue, po, users_table, uu, ec2, dep, now,
                   waf_log_bucket, wf, blacklist, ips, ana, life,
                   instance_state, wt, svc>>

CallProcessImageBatch ==
    /\ BatchesIdle
    /\ \E images \in SeqsUpTo(ImageData, MaxBatch) :
          img' = [ImgIdle EXCEPT !.pc = "loop", !.images = images]
    /\ UNCHANGED <<reg, imp, bcu, pub, queue_urls, topic_arns, clog, thr, hist,
                   par, pso, sqs_queue, po, users_table, uu, ec2, dep, now,
                   waf_log_bucket, wf, blacklist, ips, ana, life,
                   instance_state, wt, svc>>

ProcessImageStep ==
    /\ img.pc = "loop" /\ img.i <= Len(img.images)
    /\ \E o \in PutObjectOutcomes : img' = ProcessImageItem(img, o)
    /\ UNCHANGED <<reg, imp, bcu, pub, queue_urls, topic_arns, clog, thr, hist,
                   par, pso, sqs_queue, po, users_table, uu, ec2, dep, now,
                   waf_log_bucket, wf, blacklist, ips, ana, life,
                   instance_state, wt, svc>>

\* wait_for_lambda_execution swallows every exception and answers True or False
ProcessImageReturn ==
    /\ img.pc = "loop" /\ img.i > Len(img.images)
    /\ \E triggered \in BOOLEAN :
          img' = [img EXCEPT !.pc = "returned", !.batch_size = Len(img.images),
                             !.processing_triggered = triggered]
    /\ UNCHANGED <<reg, imp, bcu, pub, queue_urls, topic_arns, clog, thr, hist,
                   par, pso, sqs_queue, po, users_table, uu, ec2, dep, now,
                   waf_log_bucket, wf, blacklist, ips, ana, life,
                   instance_state, wt, svc>>

CallBatchPublishTransactions ==
    /\ BatchesIdle
    /\ \E n \in 0..MaxTx : pub' = [PubIdle EXCEPT !.pc = "loop", !.n = n]
    /\ UNCHANGED <<reg, imp, bcu, img, queue_urls, topic_arns, clog, thr, hist,
                   par, pso, sqs_queue, po, users_table, uu, ec2, dep, now,
                   waf_log_bucket, wf, blacklist, ips, ana, life,
                   instance_state, wt, svc>>

PublishStep ==
    /\ pub.pc = "loop" /\ pub.i < pub.n
    /\ \E o \in PutEventsOutcomes : pub' = PublishChunk(pub, o)
    /\ UNCHANGED <<reg, imp, bcu, img, queue_urls, topic_arns, clog, thr, hist,
                   par, pso, sqs_queue, po, users_table, uu, ec2, dep, now,
                   waf_log_bucket, wf, blacklist, ips, ana, life,
                   instance_state, wt, svc>>

PublishReturn ==
    /\ pub.pc = "loop" /\ pub.i >= pub.n
    /\ pub' = [pub EXCEPT !.pc = "returned"]
    /\ UNCHANGED <<reg, imp, bcu, img, queue_urls, topic_arns, clog, thr, hist,
                   par, pso, sqs_queue, po, users_table, uu, ec2, dep, now,
                   waf_log_bucket, wf, blacklist, ips, ana, life,
                   instance_state, wt, svc>>

(* ============ get_queue_url / get_topic_arn (12a2...) ============ *)

QueueNames == {"orders", "dlq"}
TopicNames == {"alerts", "audit"}

\* no handle: what a call that raised hands back
NoHandle == <<>>

\* the URLs SQS may answer for a queue name (the queue may be recreated
\* elsewhere between two lookups) and the ARNs SNS may list
Hosts == {"sqs-1", "sqs-2"}
QueueUrlsOf(n) == {<<h, n>> : h \in Hosts}
Accounts == {"acct-1", "acct-2"}
TopicArns == {<<a, n>> : a \in Accounts, n \in TopicNames}

\* sqs.get_queue_url(QueueName=n): a response with the URL, or a ClientError
SqsResponses(n) ==
    {[ok |-> TRUE, QueueUrl |-> u] : u \in QueueUrlsOf(n)}
        \cup {[ok |-> FALSE, QueueUrl |-> NoHandle]}

\* sns.list_topics(): a response with the topics, or a ClientError
SnsResponses ==
    {[ok |-> TRUE, Topics |-> ts] : ts \in SeqsUpTo(TopicArns, 2)}
        \cup {[ok |-> FALSE, Topics |-> <<>>]}

\* the cache with name |-> handle added or overwritten
Put(cache, name, handle) ==
    [n \in DOMAIN cache \cup {name} |-> IF n = name THEN handle ELSE cache[n]]

\* a variant without the membership test: SQS is asked on every call
GetQueueUrlUncached(cache, name, resp) ==
    IF resp.ok
    THEN LET c == Put(cache, name, resp.QueueUrl)
         IN  [cache |-> c, invoked |-> TRUE, raised |-> FALSE, value |-> c[name]]
    ELSE [cache |-> cache, invoked |-> TRUE, raised |-> TRUE, value |-> NoHandle]

\* a variant that remembers a failed lookup
GetQueueUrlFailureCached(cache, name, resp) ==
    IF name \notin DOMAIN cache
    THEN IF resp.ok
         THEN LET c == Put(cache, name, resp.QueueUrl)
              IN  [cache |-> c, invoked |-> TRUE, raised |-> FALSE, value |-> c[name]]
         ELSE [cache |-> Put(cache, name, NoHandle), invoked |-> TRUE,
               raised |-> TRUE, value |-> NoHandle]
    ELSE [cache |-> cache, invoked |-> FALSE, raised |-> FALSE, value |-> cache[name]]

\* a variant that asks SQS before it looks into the dict
GetQueueUrlAlwaysAsking(cache, name, resp) ==
    IF ~resp.ok
    THEN [cache |-> cache, invoked |-> TRUE, raised |-> TRUE, value |-> NoHandle]
    ELSE LET c == IF name \in DOMAIN cache THEN cache
                  ELSE Put(cache, name, resp.QueueUrl)
         IN  [cache |-> c, invoked |-> TRUE, raised |-> FALSE, value |-> c[name]]

\* get_queue_url(queue_name) run to its end against one answer of SQS
GetQueueUrl(cache, name, resp) ==
    IF name \notin DOMAIN cache
    THEN IF resp.ok
         THEN LET c == Put(cache, name, resp.QueueUrl)
              IN  [cache |-> c, invoked |-> TRUE, raised |-> FALSE, value |-> c[name]]
         ELSE [cache |-> cache, invoked |-> TRUE, raised |-> TRUE, value |-> NoHandle]
    ELSE [cache |-> cache, invoked |-> FALSE, raised |-> FALSE, value |-> cache[name]]

\* arn.endswith(f":{topic_name}"): the ARN's last segment is the topic name
ArnEndsWith(arn, name) == arn[Len(arn)] = name

\* the first ARN of the listing that ends with the name, NoHandle if none does
FirstMatch(topics, name) ==
    LET hits == {i \in 1..Len(topics) : ArnEndsWith(topics[i], name)}
    IN  IF hits = {} THEN NoHandle
        ELSE topics[CHOOSE i \in hits : \A j \in hits : i <= j]

\* get_topic_arn(topic_name) run to its end against one answer of SNS
GetTopicArn(cache, name, resp) ==
    IF name \notin DOMAIN cache
    THEN IF resp.ok /\ FirstMatch(resp.Topics, name) # NoHandle
         THEN LET c == Put(cache, name, FirstMatch(resp.Topics, name))
              IN  [cache |-> c, invoked |-> TRUE, raised |-> FALSE, value |-> c[name]]
         ELSE [cache |-> cache, invoked |-> TRUE, raised |-> TRUE, value |-> NoHandle]
    ELSE [cache |-> cache, invoked |-> FALSE, raised |-> FALSE, value |-> cache[name]]

\* a variant that drops every entry
InvalidateAll(cache, name) == [n \in {} |-> cache[n]]

\* invalidate(name): removes the entry if present, a no-op otherwise
Invalidate(cache, name) == [n \in DOMAIN cache \ {name} |-> cache[n]]

\* size(): the number of cached entries
Size(cache) == Cardinality(DOMAIN cache)

\* the empty dict
EmptyCache == [n \in {} |-> NoHandle]

\* the entry the history keeps of one call
CallRecord(op, name, before, out, resolved) ==
    [op |-> op, name |-> name, invoked |-> out.invoked, raised |-> out.raised,
     value |-> out.value, resolved |-> resolved, before |-> before,
     after |-> out.cache]

\* what the resolver handed back to a call: the handle, NoHandle if it failed
\* or was not asked
ResolvedQueue(out, resp) ==
    IF out.invoked /\ resp.ok THEN resp.QueueUrl ELSE NoHandle
ResolvedTopic(out, resp, name) ==
    IF out.invoked /\ resp.ok THEN FirstMatch(resp.Topics, name) ELSE NoHandle

(* ---------------- the cache called by one thread of control ---------------- *)

CallGetQueueUrl ==
    /\ Len(clog) < MaxCalls
    /\ \E name \in QueueNames : \E resp \in SqsResponses(name) :
          LET out == GetQueueUrl(queue_urls, name, resp)
          IN  /\ queue_urls' = out.cache
              /\ clog' = Append(clog, CallRecord("get_queue_url", name, queue_urls,
                                                 out, ResolvedQueue(out, resp)))
    /\ UNCHANGED <<reg, imp, bcu, img, pub, topic_arns, thr, hist, par, pso,
                   sqs_queue, po, users_table, uu, ec2, dep, now,
                   waf_log_bucket, wf, blacklist, ips, ana, life,
                   instance_state, wt, svc>>

CallGetTopicArn ==
    /\ Len(clog) < MaxCalls
    /\ \E name \in TopicNames : \E resp \in SnsResponses :
          LET out == GetTopicArn(topic_arns, name, resp)
          IN  /\ topic_arns' = out.cache
              /\ clog' = Append(clog, CallRecord("get_topic_arn", name, topic_arns,
                                                 out, ResolvedTopic(out, resp, name)))
    /\ UNCHANGED <<reg, imp, bcu, img, pub, queue_urls, thr, hist, par, pso,
                   sqs_queue, po, users_table, uu, ec2, dep, now,
                   waf_log_bucket, wf, blacklist, ips, ana, life,
                   instance_state, wt, svc>>

CallInvalidate ==
    /\ Len(clog) < MaxCalls
    /\ \E name \in QueueNames :
          LET c == Invalidate(queue_urls, name)
          IN  /\ queue_urls' = c
              /\ clog' = Append(clog,
                     CallRecord("invalidate", name, queue_urls,
                                [cache |-> c, invoked |-> FALSE, raised |-> FALSE,
                                 value |-> NoHandle], NoHandle))
    /\ UNCHANGED <<reg, imp, bcu, img, pub, topic_arns, thr, hist, par, pso,
                   sqs_queue, po, users_table, uu, ec2, dep, now,
                   waf_log_bucket, wf, blacklist, ips, ana, life,
                   instance_state, wt, svc>>

(* ------------- get_queue_url called by several threads ------------- *)

Threads == {"t1", "t2"}

\* a variant of the test that always finds the name absent
NeverCached(cache, name) == TRUE

\* line 67: queue_name not in self._queue_urls
NotCached(cache, name) == name \notin DOMAIN cache

\* a variant of the store that rebuilds the dict around the one entry
StoreUrlAlone(cache, name, url) == [n \in {name} |-> url]

\* line 70: self._queue_urls[queue_name] = response["QueueUrl"]
StoreUrl(cache, name, url) == Put(cache, name, url)

\* line 75: return self._queue_urls[queue_name]
ReadUrl(cache, name) == cache[name]

ThreadIdle == [pc |-> "idle", name |-> "orders", response |-> NoHandle, calls |-> 0,
               prior |-> {}, settled |-> FALSE]

\* a first-time resolution of the name is between its test and its store
InFlight(name) ==
    \E u \in Threads : thr[u].name = name /\ thr[u].pc \in {"call_sqs", "store"}

\* a thread enters get_queue_url(name)
Begin(t) ==
    /\ thr[t].pc = "idle" /\ thr[t].calls < MaxThreadCalls
    /\ \E name \in QueueNames :
          thr' = [thr EXCEPT ![t] =
                    [@ EXCEPT !.pc = "test", !.name = name, !.calls = @ + 1,
                              !.response = NoHandle,
                              !.prior = hist.returned[name],
                              !.settled = name \in DOMAIN queue_urls
                                              /\ ~InFlight(name)]]
    /\ UNCHANGED <<reg, imp, bcu, img, pub, queue_urls, topic_arns, clog, hist,
                   par, pso, sqs_queue, po, users_table, uu, ec2, dep, now,
                   waf_log_bucket, wf, blacklist, ips, ana, life,
                   instance_state, wt, svc>>

\* the membership test of line 67
Test(t) ==
    /\ thr[t].pc = "test"
    /\ thr' = [thr EXCEPT ![t].pc =
                  IF NotCached(queue_urls, thr[t].name) THEN "call_sqs" ELSE "return"]
    /\ UNCHANGED <<reg, imp, bcu, img, pub, queue_urls, topic_arns, clog, hist,
                   par, pso, sqs_queue, po, users_table, uu, ec2, dep, now,
                   waf_log_bucket, wf, blacklist, ips, ana, life,
                   instance_state, wt, svc>>

\* the record of a finished call
Finished(t, raised, value) ==
    [thread |-> t, call |-> thr[t].calls, name |-> thr[t].name, raised |-> raised,
     value |-> value, prior |-> thr[t].prior, settled |-> thr[t].settled]

\* line 69: SQS answers, or raises a ClientError that ends the call
CallSqs(t) ==
    /\ thr[t].pc = "call_sqs"
    /\ \E resp \in SqsResponses(thr[t].name) :
          IF resp.ok
          THEN /\ thr' = [thr EXCEPT ![t].pc = "store", ![t].response = resp.QueueUrl]
               /\ hist' = [hist EXCEPT !.resolved[thr[t].name] = @ \cup {resp.QueueUrl}]
          ELSE /\ thr' = [thr EXCEPT ![t].pc = "idle"]
               /\ hist' = [hist EXCEPT !.done = @ \cup {Finished(t, TRUE, NoHandle)}]
    /\ UNCHANGED <<reg, imp, bcu, img, pub, queue_urls, topic_arns, clog, par,
                   pso, sqs_queue, po, users_table, uu, ec2, dep, now,
                   waf_log_bucket, wf, blacklist, ips, ana, life,
                   instance_state, wt, svc>>

\* line 70: the store into the dict
Store(t) ==
    /\ thr[t].pc = "store"
    /\ queue_urls' = StoreUrl(queue_urls, thr[t].name, thr[t].response)
    /\ thr' = [thr EXCEPT ![t].pc = "return"]
    /\ hist' = [hist EXCEPT !.stored = @ \cup {thr[t].name}]
    /\ UNCHANGED <<reg, imp, bcu, img, pub, topic_arns, clog, par, pso,
                   sqs_queue, po, users_table, uu, ec2, dep, now,
                   waf_log_bucket, wf, blacklist, ips, ana, life,
                   instance_state, wt, svc>>

\* line 75: the dict is read again for the value returned; a name that is no
\* longer there is a KeyError
Return(t) ==
    /\ thr[t].pc = "return"
    /\ thr' = [thr EXCEPT ![t].pc = "idle"]
    /\ IF thr[t].name \notin DOMAIN queue_urls
       THEN hist' = [hist EXCEPT !.done = @ \cup {Finished(t, TRUE, NoHandle)}]
       ELSE LET v == ReadUrl(queue_urls, thr[t].name)
            IN  hist' = [hist EXCEPT !.done = @ \cup {Finished(t, FALSE, v)},
                                     !.returned[thr[t].name] = @ \cup {v}]
    /\ UNCHANGED <<reg, imp, bcu, img, pub, queue_urls, topic_arns, clog, par,
                   pso, sqs_queue, po, users_table, uu, ec2, dep, now,
                   waf_log_bucket, wf, blacklist, ips, ana, life,
                   instance_state, wt, svc>>

HistInit ==
    [returned |-> [n \in QueueNames |-> {}], resolved |-> [n \in QueueNames |-> {}],
     stored |-> {}, done |-> {}]

(* ================= runBatch on parallel workers (spec 4.2, 5) ================= *)

\* the inputs and the operation of the specification's worked example:
\* op(x) = 100 / x, which fails for x = 0
BatchItems == {0, 1, 2, 4}
Operation(x) ==
    IF x = 0 THEN [ok |-> FALSE, value |-> <<>>, error |-> <<"division by zero">>]
    ELSE [ok |-> TRUE, value |-> <<100 \div x>>, error |-> <<>>]

\* ItemOutcome{index, input, success, result, error} of one item; index is the
\* 0-based input position, fixed when the item is dispatched
ItemOutcome(index, item) ==
    LET res == Operation(item)
    IN  [index |-> index - 1, input |-> item, success |-> res.ok,
         result |-> res.value, error |-> res.error]

\* a variant that files the outcomes in the order the workers finish
RecordInCompletionOrder(slots, index, outcome) ==
    [i \in DOMAIN slots \cup {Cardinality(DOMAIN slots) + 1} |->
        IF i \in DOMAIN slots THEN slots[i] ELSE outcome]

\* a finished worker files its outcome under the index it was dispatched with
RecordOutcome(slots, index, outcome) ==
    [i \in DOMAIN slots \cup {index} |-> IF i = index THEN outcome ELSE slots[i]]

\* the BatchReport over the n items attempted
BatchReport(slots, n) ==
    LET outcomes == [i \in 1..n |-> slots[i]]
    IN  [outcomes |-> outcomes,
         successCount |-> Cardinality({i \in 1..n : outcomes[i].success}),
         failureCount |-> Cardinality({i \in 1..n : ~outcomes[i].success})]

\* successRate(): successCount / len(outcomes), 0.0 when outcomes is empty, as
\* numerator and denominator
successRate(report) ==
    IF Len(report.outcomes) = 0 THEN <<0, 1>>
    ELSE <<report.successCount, Len(report.outcomes)>>

NoReport == [outcomes |-> <<>>, successCount |-> 0, failureCount |-> 0]

\* cancelled: the batch's cancellation token is set; late: history, the items
\* handed to a worker while it was set; at_cancel: history, the items that
\* were running when it was set
ParIdle ==
    [pc |-> "idle", items |-> <<>>, dispatched |-> 0, running |-> {},
     slots |-> [i \in {} |-> 0], completion |-> <<>>, report |-> NoReport,
     cancelled |-> FALSE, late |-> {}, at_cancel |-> {}]

\* a variant that goes on dispatching after the cancellation
MayDispatchIgnoringCancel(p) == p.dispatched < Len(p.items)

\* an item is left to dispatch and the batch is not cancelled
MayDispatch(p) == ~p.cancelled /\ p.dispatched < Len(p.items)

CallRunBatch ==
    /\ par.pc = "idle"
    /\ \E items \in SeqsUpTo(BatchItems, MaxBatch) :
          par' = [ParIdle EXCEPT !.pc = "running", !.items = items]
    /\ UNCHANGED <<reg, imp, bcu, img, pub, queue_urls, topic_arns, clog, thr,
                   hist, pso, sqs_queue, po, users_table, uu, ec2, dep, now,
                   waf_log_bucket, wf, blacklist, ips, ana, life,
                   instance_state, wt, svc>>

\* the next item, in input order, is handed to a worker together with its index
Dispatch ==
    /\ par.pc = "running" /\ MayDispatch(par)
    /\ par' = [par EXCEPT !.dispatched = @ + 1,
                          !.running = @ \cup {par.dispatched + 1},
                          !.late = IF par.cancelled THEN @ \cup {par.dispatched + 1}
                                   ELSE @]
    /\ UNCHANGED <<reg, imp, bcu, img, pub, queue_urls, topic_arns, clog, thr,
                   hist, pso, sqs_queue, po, users_table, uu, ec2, dep, now,
                   waf_log_bucket, wf, blacklist, ips, ana, life,
                   instance_state, wt, svc>>

\* some worker finishes: the workers finish in any order
Complete ==
    /\ par.pc = "running"
    /\ \E i \in par.running :
          par' = [par EXCEPT
                    !.running = @ \ {i},
                    !.slots = RecordOutcome(@, i, ItemOutcome(i, par.items[i])),
                    !.completion = Append(@, i)]
    /\ UNCHANGED <<reg, imp, bcu, img, pub, queue_urls, topic_arns, clog, thr,
                   hist, pso, sqs_queue, po, users_table, uu, ec2, dep, now,
                   waf_log_bucket, wf, blacklist, ips, ana, life,
                   instance_state, wt, svc>>

\* the batch's cancellation token is set while the batch runs
Cancel ==
    /\ par.pc = "running" /\ ~par.cancelled
    /\ par' = [par EXCEPT !.cancelled = TRUE, !.at_cancel = par.running]
    /\ UNCHANGED <<reg, imp, bcu, img, pub, queue_urls, topic_arns, clog, thr,
                   hist, pso, sqs_queue, po, users_table, uu, ec2, dep, now,
                   waf_log_bucket, wf, blacklist, ips, ana, life,
                   instance_state, wt, svc>>

\* nothing is left to dispatch, or the batch is cancelled, and every worker
\* has finished: the report holds the items attempted
ReturnReport ==
    /\ par.pc = "running"
    /\ par.dispatched = Len(par.items) \/ par.cancelled
    /\ par.running = {}
    /\ par' = [par EXCEPT !.pc = "returned",
                          !.report = BatchReport(par.slots, par.dispatched)]
    /\ UNCHANGED <<reg, imp, bcu, img, pub, queue_urls, topic_arns, clog, thr,
                   hist, pso, sqs_queue, po, users_table, uu, ec2, dep, now,
                   waf_log_bucket, wf, blacklist, ips, ana, life,
                   instance_state, wt, svc>>

(* ================== _process_single_order (12a2...) ================== *)

\* an order item as a dict: the keys it has and their values
ItemKeys == {"sku", "quantity"}
OrderItem ==
    {it \in [keys : SUBSET ItemKeys, sku : {"PROD-A", "OUT-OF-STOCK"},
             quantity : {1, 100, 101}] :
        /\ "sku" \notin it.keys => it.sku = "PROD-A"
        /\ "quantity" \notin it.keys => it.quantity = 1}

\* an order as a dict: the keys it has and their values
required_fields == {"order_id", "customer_id", "items", "total"}
OrderData ==
    {o \in [keys : SUBSET required_fields, items : SeqsUpTo(OrderItem, MaxItems),
            total : {50, 500, 501}] :
        /\ "items" \notin o.keys => o.items = <<>>
        /\ "total" \notin o.keys => o.total = 50}

\* items with more than this quantity are not in stock
max_quantity == 100
\* payments over this total are declined
max_total == 500

\* _validate_order: all(field in order_data ...) and len(order_data["items"]) > 0
ValidateOrder(o) == required_fields \subseteq o.keys /\ Len(o.items) > 0

\* the condition of _check_inventory raises KeyError for this item: 'sku' is
\* read first, 'quantity' only when the sku is not OUT-OF-STOCK
ItemRaises(it) ==
    \/ "sku" \notin it.keys
    \/ it.sku # "OUT-OF-STOCK" /\ "quantity" \notin it.keys

\* item["sku"] == "OUT-OF-STOCK" or item["quantity"] > 100
ItemUnavailable(it) == it.sku = "OUT-OF-STOCK" \/ it.quantity > max_quantity

\* _check_inventory: the loop visits every item, so one item that raises makes
\* the call raise
CheckInventory(items) ==
    IF \E i \in 1..Len(items) : ItemRaises(items[i])
    THEN [raised |-> TRUE, available |-> FALSE, unavailable_items |-> <<>>]
    ELSE LET un == SelectSeq(items, ItemUnavailable)
         IN  [raised |-> FALSE, available |-> Len(un) = 0,
              unavailable_items |-> [i \in 1..Len(un) |-> un[i].sku]]

\* _process_payment
ProcessPayment(o) ==
    IF o.total > max_total
    THEN [success |-> FALSE, error |-> "Credit card declined", payment_id |-> Missing]
    ELSE [success |-> TRUE, error |-> Missing, payment_id |-> "PAY-<time>"]

\* the dict _process_single_order returns; Missing stands for a key it lacks
ProcessingResult(success, stage, error, payment_id, shipping_label, status) ==
    [success |-> success, stage |-> stage, error |-> error,
     payment_id |-> payment_id, shipping_label |-> shipping_label,
     status |-> status]

OrderFailed(stage, error) ==
    ProcessingResult(FALSE, stage, error, Missing, Missing, Missing)

\* a variant that takes the payment before it looks at the inventory
ProcessSingleOrderPaymentFirst(o) ==
    IF ~ValidateOrder(o)
    THEN OrderFailed("validation", "Order validation failed")
    ELSE IF ~ProcessPayment(o).success
    THEN OrderFailed("payment", "Payment failed")
    ELSE IF CheckInventory(o.items).raised
    THEN OrderFailed("processing", "KeyError")
    ELSE IF ~CheckInventory(o.items).available
    THEN OrderFailed("inventory_check", "Insufficient inventory for items")
    ELSE ProcessingResult(TRUE, Missing, Missing, ProcessPayment(o).payment_id,
                          "TRACK-<order_id>-<time>", "processed")

\* _process_single_order: validation, inventory, payment; an exception of one
\* of them is caught and reported as stage 'processing'
ProcessSingleOrder(o) ==
    IF ~ValidateOrder(o)
    THEN OrderFailed("validation", "Order validation failed")
    ELSE IF CheckInventory(o.items).raised
    THEN OrderFailed("processing", "KeyError")
    ELSE IF ~CheckInventory(o.items).available
    THEN OrderFailed("inventory_check", "Insufficient inventory for items")
    ELSE IF ~ProcessPayment(o).success
    THEN OrderFailed("payment", "Payment failed")
    ELSE ProcessingResult(TRUE, Missing, Missing, ProcessPayment(o).payment_id,
                          "TRACK-<order_id>-<time>", "processed")

NoOrder == [keys |-> {}, items |-> <<>>, total |-> 50]

PsoIdle == [pc |-> "idle", order |-> NoOrder, result |-> OrderFailed(None, None)]

CallProcessSingleOrder ==
    /\ pso.pc = "idle"
    /\ \E o \in OrderData :
          pso' = [pc |-> "returned", order |-> o, result |-> ProcessSingleOrder(o)]
    /\ UNCHANGED <<reg, imp, bcu, img, pub, queue_urls, topic_arns, clog, thr,
                   hist, par, sqs_queue, po, users_table, uu, ec2, dep, now,
                   waf_log_bucket, wf, blacklist, ips, ana, life,
                   instance_state, wt, svc>>

(* =============== submit_order / process_orders (12a2...) =============== *)

\* an order of one item
Order(keys, sku, quantity, total) ==
    [keys |-> keys,
     items |-> <<[keys |-> ItemKeys, sku |-> sku, quantity |-> quantity]>>,
     total |-> total]

\* the orders handed to submit_order: one that passes, one whose payment is
\* declined, one out of stock, one without items and one without customer_id
SubmittedOrders ==
    {Order(required_fields, "PROD-A", 1, 50),
     Order(required_fields, "PROD-A", 1, 501),
     Order(required_fields, "OUT-OF-STOCK", 1, 50),
     [keys |-> required_fields \ {"items"}, items |-> <<>>, total |-> 50],
     Order(required_fields \ {"customer_id"}, "PROD-A", 1, 50)}

SendOutcomes == {"sent", "client_error"}
DeleteOutcomes == {"deleted", "client_error"}

\* SQS hands out at most this many messages per receive_message
max_receive == 10

\* min(max_messages, 10)
MaxNumberOfMessages(max_messages) ==
    IF max_messages < max_receive THEN max_messages ELSE max_receive

\* the positions of the messages in a given state
InState(queue, state) == {m \in 1..Len(queue) : queue[m].state = state}

\* what receive_message may answer: a ClientError, or up to n of the visible
\* messages in any order (SQS may hand out fewer than there are)
ReceiveOutcomes(queue, n) ==
    LET visible == InState(queue, "visible")
        most    == IF n < Cardinality(visible) THEN n ELSE Cardinality(visible)
    IN  {[ok |-> FALSE, Messages |-> <<>>]} \cup
        {[ok |-> TRUE, Messages |-> ms] :
            ms \in {q \in SeqsUpTo(visible, most) :
                       \A i, j \in 1..Len(q) : i # j => q[i] # q[j]}}

\* the received messages are in flight until deleted or timed out
Receive(queue, ms) ==
    [m \in 1..Len(queue) |->
        IF \E i \in 1..Len(ms) : ms[i] = m
        THEN [queue[m] EXCEPT !.state = "in_flight"] ELSE queue[m]]

\* get_queue_metrics, when SQS answers
GetQueueMetrics(queue) ==
    [approximate_number_of_messages |-> Cardinality(InState(queue, "visible")),
     approximate_number_of_messages_not_visible |->
         Cardinality(InState(queue, "in_flight"))]

\* a variant that deletes the message whatever the result
DeleteRegardless(processing_result) == TRUE

\* line 197: if processing_result["success"]
DeleteOnSuccess(processing_result) == processing_result.success

\* a variant of the inner except branch that gives up the remaining messages
MessageFailedAbort(r, m) == [r EXCEPT !.i = Len(r.messages) + 1]

\* the inner except branch: an entry with 'error' for the message, and on
\* with the next message
MessageFailed(r, m) ==
    [r EXCEPT !.i = @ + 1,
              !.processed_orders =
                  Append(@, [error |-> "exception", message_id |-> m])]

\* the body of the for loop of process_orders for message m; d is what
\* delete_message does when it is called. json.loads raises for a body that
\* is not JSON, and the log line of a failed order reads order_data['order_id']
ProcessMessage(r, queue, m, d) ==
    LET order_data == queue[m].order
        processing_result == ProcessSingleOrder(order_data)
        entry == [order_id |-> "order_id", processing_result |-> processing_result,
                  message_id |-> m]
        r1 == [r EXCEPT !.i = @ + 1]
    IN  IF ~queue[m].json
        THEN [queue |-> queue, r |-> MessageFailed(r, m)]
        ELSE IF DeleteOnSuccess(processing_result)
        THEN IF d = "deleted"
             THEN [queue |-> [queue EXCEPT ![m].state = "deleted"],
                   r |-> [r1 EXCEPT !.processed_orders = Append(@, entry),
                                    !.delete_calls = Append(@, m)]]
             ELSE [queue |-> queue,
                   r |-> [MessageFailed(r, m) EXCEPT
                              !.delete_calls = Append(@, m)]]
        ELSE IF "order_id" \in order_data.keys
        THEN [queue |-> queue,
              r |-> [r1 EXCEPT !.processed_orders = Append(@, entry)]]
        ELSE [queue |-> queue, r |-> MessageFailed(r, m)]

\* queued: history, the number of messages in the queue when the run began;
\* delete_calls: history, the messages delete_message was called for
PoIdle ==
    [pc |-> "idle", max_messages |-> 0, messages |-> <<>>, i |-> 1,
     processed_orders |-> <<>>, queued |-> 0, delete_calls |-> <<>>]

\* submit_order: get_queue_url, then send_message with the order's id,
\* customer and total as attributes; every exception ends in success False
SubmitOrder ==
    /\ po.pc = "idle" /\ Len(sqs_queue) < MaxQueued
    /\ \E o \in SubmittedOrders, resp \in SqsResponses("orders"), s \in SendOutcomes :
          LET out == GetQueueUrl(queue_urls, "orders", resp)
          IN  /\ queue_urls' = out.cache
              /\ sqs_queue' =
                    IF ~out.raised /\ s = "sent"
                          /\ {"order_id", "customer_id", "total"} \subseteq o.keys
                    THEN Append(sqs_queue,
                                [order |-> o, state |-> "visible", json |-> TRUE])
                    ELSE sqs_queue
    /\ UNCHANGED <<reg, imp, bcu, img, pub, topic_arns, clog, thr, hist, par,
                   pso, po, users_table, uu, ec2, dep, now, waf_log_bucket, wf,
                   blacklist, ips, ana, life, instance_state, wt, svc>>

\* another producer sends a message to the queue: a body that is not JSON, or
\* an order without order_id
ForeignMessage ==
    /\ po.pc = "idle" /\ Len(sqs_queue) < MaxQueued
    /\ \E json \in BOOLEAN :
          sqs_queue' =
              Append(sqs_queue,
                     [order |-> Order(required_fields \ {"order_id"}, "PROD-A", 1, 50),
                      state |-> "visible", json |-> json])
    /\ UNCHANGED <<reg, imp, bcu, img, pub, queue_urls, topic_arns, clog, thr,
                   hist, par, pso, po, users_table, uu, ec2, dep, now,
                   waf_log_bucket, wf, blacklist, ips, ana, life,
                   instance_state, wt, svc>>

\* process_orders up to its loop: get_queue_url and receive_message; an
\* exception of either is caught by the outer except and [] is returned
CallProcessOrders ==
    /\ po.pc = "idle"
    /\ \E max_messages \in {1, max_receive}, resp \in SqsResponses("orders") :
          LET out == GetQueueUrl(queue_urls, "orders", resp)
              run == [PoIdle EXCEPT !.max_messages = max_messages,
                                    !.queued = Len(sqs_queue)]
          IN  /\ queue_urls' = out.cache
              /\ IF out.raised
                 THEN po' = [run EXCEPT !.pc = "returned"]
                          /\ UNCHANGED sqs_queue
                 ELSE \E rcv \in ReceiveOutcomes(sqs_queue,
                                     MaxNumberOfMessages(max_messages)) :
                          IF rcv.ok
                          THEN /\ po' = [run EXCEPT !.pc = "loop",
                                                    !.messages = rcv.Messages]
                               /\ sqs_queue' = Receive(sqs_queue, rcv.Messages)
                          ELSE /\ po' = [run EXCEPT !.pc = "returned"]
                               /\ UNCHANGED sqs_queue
    /\ UNCHANGED <<reg, imp, bcu, img, pub, topic_arns, clog, thr, hist, par,
                   pso, users_table, uu, ec2, dep, now, waf_log_bucket, wf,
                   blacklist, ips, ana, life, instance_state, wt, svc>>

\* one iteration of the for loop over the received messages
ProcessOrderStep ==
    /\ po.pc = "loop" /\ po.i <= Len(po.messages)
    /\ \E d \in DeleteOutcomes :
          LET out == ProcessMessage(po, sqs_queue, po.messages[po.i], d)
          IN  po' = out.r /\ sqs_queue' = out.queue
    /\ UNCHANGED <<reg, imp, bcu, img, pub, queue_urls, topic_arns, clog, thr,
                   hist, par, pso, users_table, uu, ec2, dep, now,
                   waf_log_bucket, wf, blacklist, ips, ana, life,
                   instance_state, wt, svc>>

ProcessOrdersReturn ==
    /\ po.pc = "loop" /\ po.i > Len(po.messages)
    /\ po' = [po EXCEPT !.pc = "returned"]
    /\ UNCHANGED <<reg, imp, bcu, img, pub, queue_urls, topic_arns, clog, thr,
                   hist, par, pso, sqs_queue, users_table, uu, ec2, dep, now,
                   waf_log_bucket, wf, blacklist, ips, ana, life,
                   instance_state, wt, svc>>

\* the visibility timeout of the messages still in flight passes
VisibilityTimeout ==
    /\ po.pc = "returned" /\ InState(sqs_queue, "in_flight") # {}
    /\ sqs_queue' = [m \in 1..Len(sqs_queue) |->
                        IF sqs_queue[m].state = "in_flight"
                        THEN [sqs_queue[m] EXCEPT !.state = "visible"]
                        ELSE sqs_queue[m]]
    /\ UNCHANGED <<reg, imp, bcu, img, pub, queue_urls, topic_arns, clog, thr,
                   hist, par, pso, po, users_table, uu, ec2, dep, now,
                   waf_log_bucket, wf, blacklist, ips, ana, life,
                   instance_state, wt, svc>>

(* ========= create_user / update_user / delete_user (6270...) ========= *)

UserIds == {"u1", "u2"}

\* the attributes a caller passes besides the key: the ones it passes and
\* their values
UserAttributes ==
    {a \in [keys : SUBSET {"email", "status"}, email : {"a@x", "b@x"},
            status : {"active", "inactive"}] :
        /\ "email" \notin a.keys => a.email = "a@x"
        /\ "status" \notin a.keys => a.status = "active"}

\* what DynamoDB does with a call on the users table: it carries it out, or
\* raises a ClientError with this code (ResourceNotFoundException: the table
\* does not exist)
DynamoOutcomes == {"ok", "ResourceNotFoundException", "InternalServerError"}

\* the attributes a overwrite in item
SetAttributes(item, a) ==
    [email  |-> IF "email" \in a.keys THEN a.email ELSE item.email,
     status |-> IF "status" \in a.keys THEN a.status ELSE item.status]

UuIdle ==
    [op |-> None, user_id |-> None, existed |-> FALSE, fields |-> FALSE,
     out |-> None, result |-> [success |-> FALSE, error |-> None]]

\* the record of one call
UserCall(op, user_id, a, out, success, error) ==
    [op |-> op, user_id |-> user_id, existed |-> user_id \in DOMAIN users_table,
     fields |-> a.keys # {}, out |-> out,
     result |-> [success |-> success, error |-> error]]

\* create_user: put_item of the user data, with status 'active' by default;
\* user data without 'UserId' is a ValueError
CallCreateUser ==
    /\ \E id \in UserIds \cup {Missing}, a \in UserAttributes, out \in DynamoOutcomes :
          IF id = Missing
          THEN /\ uu' = UserCall("create_user", id, a, out, FALSE, "UserId is required")
               /\ UNCHANGED users_table
          ELSE IF out = "ok"
          THEN /\ users_table' =
                     Put(users_table, id,
                         SetAttributes([email |-> Missing, status |-> "active"], a))
               /\ uu' = UserCall("create_user", id, a, out, TRUE, None)
          ELSE /\ uu' = UserCall("create_user", id, a, out, FALSE, out)
               /\ UNCHANGED users_table
    /\ UNCHANGED <<reg, imp, bcu, img, pub, queue_urls, topic_arns, clog, thr,
                   hist, par, pso, sqs_queue, po, ec2, dep, now,
                   waf_log_bucket, wf, blacklist, ips, ana, life,
                   instance_state, wt, svc>>

\* update_user: update_item with a SET expression over the fields other than
\* UserId and no condition, which writes the item whether or not it exists
CallUpdateUser ==
    /\ \E id \in UserIds, a \in UserAttributes, out \in DynamoOutcomes :
          IF a.keys = {}
          THEN /\ uu' = UserCall("update_user", id, a, out, FALSE,
                                 "No valid fields to update")
               /\ UNCHANGED users_table
          ELSE IF out = "ok"
          THEN /\ users_table' =
                     Put(users_table, id,
                         SetAttributes(IF id \in DOMAIN users_table
                                       THEN users_table[id]
                                       ELSE [email |-> Missing, status |-> Missing],
                                       a))
               /\ uu' = UserCall("update_user", id, a, out, TRUE, None)
          ELSE /\ uu' = UserCall("update_user", id, a, out, FALSE,
                                 IF out = "ResourceNotFoundException"
                                 THEN "User not found" ELSE out)
               /\ UNCHANGED users_table
    /\ UNCHANGED <<reg, imp, bcu, img, pub, queue_urls, topic_arns, clog, thr,
                   hist, par, pso, sqs_queue, po, ec2, dep, now,
                   waf_log_bucket, wf, blacklist, ips, ana, life,
                   instance_state, wt, svc>>

\* delete_user: delete_item returning the old item; no old item, no user
CallDeleteUser ==
    /\ \E id \in UserIds, out \in DynamoOutcomes :
          LET a == [keys |-> {}, email |-> "a@x", status |-> "active"]
          IN  IF out # "ok"
              THEN /\ uu' = UserCall("delete_user", id, a, out, FALSE, out)
                   /\ UNCHANGED users_table
              ELSE IF id \notin DOMAIN users_table
              THEN /\ uu' = UserCall("delete_user", id, a, out, FALSE, "User not found")
                   /\ UNCHANGED users_table
              ELSE /\ users_table' = [u \in DOMAIN users_table \ {id} |-> users_table[u]]
                   /\ uu' = UserCall("delete_user", id, a, out, TRUE, None)
    /\ UNCHANGED <<reg, imp, bcu, img, pub, queue_urls, topic_arns, clog, thr,
                   hist, par, pso, sqs_queue, po, ec2, dep, now,
                   waf_log_bucket, wf, blacklist, ips, ana, life,
                   instance_state, wt, svc>>

\* get_user: get_item; no item, no user
CallGetUser ==
    /\ \E id \in UserIds, out \in DynamoOutcomes :
          LET a == [keys |-> {}, email |-> "a@x", status |-> "active"]
          IN  uu' = IF out # "ok"
                    THEN UserCall("get_user", id, a, out, FALSE, out)
                    ELSE IF id \notin DOMAIN users_table
                    THEN UserCall("get_user", id, a, out, FALSE, "User not found")
                    ELSE UserCall("get_user", id, a, out, TRUE, None)
    /\ UNCHANGED <<reg, imp, bcu, img, pub, queue_urls, topic_arns, clog, thr,
                   hist, par, pso, sqs_queue, po, users_table, ec2, dep, now,
                   waf_log_bucket, wf, blacklist, ips, ana, life,
                   instance_state, wt, svc>>

(* ================== simulate_user_lifecycle (6270...) ================== *)

\* the operations after create, in the order of the code, with the updates
\* they pass to update_user (delete passes none); 'subscription' is an
\* attribute the model's items do not keep
lifecycle_operations ==
    <<[operation |-> "create", keys |-> {}, email |-> "a@x", status |-> "active"],
      [operation |-> "update_email", keys |-> {"email"},
       email |-> "updated.email@example.com", status |-> "active"],
      [operation |-> "upgrade_subscription", keys |-> {"subscription"},
       email |-> "a@x", status |-> "active"],
      [operation |-> "deactivate", keys |-> {"status"},
       email |-> "a@x", status |-> "inactive"],
      [operation |-> "reactivate", keys |-> {"status"},
       email |-> "a@x", status |-> "active"],
      [operation |-> "delete", keys |-> {}, email |-> "a@x", status |-> "active"]>>

\* operations: the operations list, each entry with result['success'];
\* has_operations: the returned dict has the key 'operations'
LifeIdle ==
    [pc |-> "idle", user_id |-> None, base_user_data |-> [keys |-> {},
     email |-> "a@x", status |-> "active"], operations |-> <<>>,
     success |-> FALSE, has_operations |-> FALSE]

\* simulate_user_lifecycle up to its first operation:
\* user_id = base_user_data['UserId'], a KeyError without the key, which the
\* except clause turns into {'success': False, 'error': ...}
CallSimulateUserLifecycle ==
    /\ life.pc = "idle"
    /\ \E id \in UserIds \cup {Missing}, a \in UserAttributes :
          life' = IF id = Missing
                  THEN [LifeIdle EXCEPT !.pc = "returned", !.user_id = id,
                                        !.base_user_data = a]
                  ELSE [LifeIdle EXCEPT !.pc = "running", !.user_id = id,
                                        !.base_user_data = a]
    /\ UNCHANGED <<reg, imp, bcu, img, pub, queue_urls, topic_arns, clog, thr,
                   hist, par, pso, sqs_queue, po, users_table, uu, ec2, dep,
                   now, waf_log_bucket, wf, blacklist, ips, ana,
                   instance_state, wt, svc>>

\* a variant that goes on after a failed create
NeverStops(op, success) == FALSE

\* if not create_result['success']: return
StopsAfter(op, success) == op.operation = "create" /\ ~success

\* the next operation of the lifecycle: create_user, four update_user calls,
\* delete_user, each appended to operations with its result; a failed create
\* returns at once
LifecycleStep ==
    /\ life.pc = "running" /\ Len(life.operations) < Len(lifecycle_operations)
    /\ \E out \in DynamoOutcomes :
          LET id == life.user_id
              op == lifecycle_operations[Len(life.operations) + 1]
              old == IF id \in DOMAIN users_table THEN users_table[id]
                     ELSE [email |-> Missing, status |-> Missing]
              success ==
                  IF op.operation = "delete"
                  THEN out = "ok" /\ id \in DOMAIN users_table
                  ELSE out = "ok"
              operations ==
                  Append(life.operations,
                         [operation |-> op.operation, success |-> success])
          IN  /\ users_table' =
                    IF ~success THEN users_table
                    ELSE IF op.operation = "create"
                    THEN Put(users_table, id,
                             SetAttributes([email |-> Missing, status |-> "active"],
                                           life.base_user_data))
                    ELSE IF op.operation = "delete"
                    THEN [u \in DOMAIN users_table \ {id} |-> users_table[u]]
                    ELSE Put(users_table, id, SetAttributes(old, op))
              /\ life' = IF StopsAfter(op, success)
                         THEN [life EXCEPT !.pc = "returned",
                                           !.operations = operations,
                                           !.has_operations = TRUE]
                         ELSE [life EXCEPT !.operations = operations]
    /\ UNCHANGED <<reg, imp, bcu, img, pub, queue_urls, topic_arns, clog, thr,
                   hist, par, pso, sqs_queue, po, uu, ec2, dep, now,
                   waf_log_bucket, wf, blacklist, ips, ana, instance_state, wt,
                   svc>>

LifecycleReturn ==
    /\ life.pc = "running" /\ Len(life.operations) = Len(lifecycle_operations)
    /\ life' = [life EXCEPT !.pc = "returned", !.success = TRUE,
                            !.has_operations = TRUE]
    /\ UNCHANGED <<reg, imp, bcu, img, pub, queue_urls, topic_arns, clog, thr,
                   hist, par, pso, sqs_queue, po, users_table, uu, ec2, dep,
                   now, waf_log_bucket, wf, blacklist, ips, ana,
                   instance_state, wt, svc>>

(* ================= deploy_full_application (5f63...) ================= *)

Strategies == {"ROLLING", "BLUE_GREEN", "CANARY"}

application_tiers ==
    [web |-> [min_instances |-> 2, subnet_type |-> "public",
              security_group_name |-> "web-sg"],
     app |-> [min_instances |-> 2, subnet_type |-> "private",
              security_group_name |-> "app-sg"],
     db  |-> [min_instances |-> 1, subnet_type |-> "private",
              security_group_name |-> "db-sg"]]

deployment_order == <<"db", "app", "web">>

\* the order create_security_groups creates the groups in
security_group_order == <<"web-sg", "app-sg", "db-sg">>

\* what discover_infrastructure can find: an available VPC or none, and the
\* numbers of its subnets tagged public and private
Infrastructures ==
    {n \in [vpc : BOOLEAN, public_subnets : 0..MaxSubnets,
            private_subnets : 0..MaxSubnets] :
        ~n.vpc => n.public_subnets = 0 /\ n.private_subnets = 0}

Ec2Outcomes == {"ok", "client_error"}

\* ec2_failed: history, a call to EC2 raised a ClientError of the service's
\* own; fresh: history, the VPC had no security groups when the run began;
\* launched: history, the instances the last deploy_application_tier call
\* launched, with the index of the subnet of each; waited: history, how
\* wait_for_instances_running ended for a tier
DepIdle ==
    [pc |-> "idle", strategy |-> None,
     infrastructure |-> [vpc |-> FALSE, public_subnets |-> 0, private_subnets |-> 0],
     security_groups |-> {}, tier |-> 1,
     deployed_instances |-> [t \in {} |-> <<>>], exc |-> None,
     ec2_failed |-> FALSE, fresh |-> TRUE, launched |-> <<>>,
     waited |-> [t \in {} |-> None]]

\* deploy_full_application up to its loop: discover_infrastructure, then
\* create_security_groups, whose create_security_group calls use fixed group
\* names and fail when the VPC holds a group of that name; created is the
\* number of groups EC2 creates before it fails (3: it does not fail)
CallDeployFullApplication ==
    /\ dep.pc \in {"idle", "returned", "raised"} /\ ec2.deploys < MaxDeploys
    /\ \E strategy \in Strategies, infra \in Infrastructures, d \in Ec2Outcomes,
          created \in 0..Len(security_group_order) :
          LET run == [DepIdle EXCEPT !.strategy = strategy,
                                     !.infrastructure = infra,
                                     !.fresh = ec2.security_groups = {}]
              new == {security_group_order[k] : k \in 1..created}
          IN  IF d = "client_error"
              THEN /\ dep' = [run EXCEPT !.pc = "raised", !.exc = "ClientError",
                                         !.ec2_failed = TRUE]
                   /\ ec2' = [ec2 EXCEPT !.deploys = @ + 1]
              ELSE IF ~infra.vpc
              THEN /\ dep' = [run EXCEPT !.pc = "raised",
                                         !.exc = "ValueError: No VPC found"]
                   /\ ec2' = [ec2 EXCEPT !.deploys = @ + 1]
              ELSE IF security_group_order[1] \in ec2.security_groups
              THEN /\ dep' = [run EXCEPT !.pc = "raised",
                                         !.exc = "ClientError: InvalidGroup.Duplicate"]
                   /\ ec2' = [ec2 EXCEPT !.deploys = @ + 1]
              ELSE IF created < Len(security_group_order)
              THEN /\ dep' = [run EXCEPT !.pc = "raised", !.exc = "ClientError",
                                         !.ec2_failed = TRUE]
                   /\ ec2' = [ec2 EXCEPT !.deploys = @ + 1,
                                         !.security_groups = @ \cup new]
              ELSE /\ dep' = [run EXCEPT !.pc = "tiers", !.security_groups = new]
                   /\ ec2' = [ec2 EXCEPT !.deploys = @ + 1,
                                         !.security_groups = @ \cup new]
    /\ UNCHANGED <<reg, imp, bcu, img, pub, queue_urls, topic_arns, clog, thr,
                   hist, par, pso, sqs_queue, po, users_table, uu, now,
                   waf_log_bucket, wf, blacklist, ips, ana, life,
                   instance_state, wt, svc>>

\* one iteration of the loop over deployment_order. ROLLING and BLUE_GREEN call
\* deploy_application_tier, which needs a subnet of the tier's type and runs
\* min_instances run_instances calls (launched: the calls that succeed before
\* one fails); ROLLING then waits for the instances. No branch handles CANARY.
\* The log line after the branches reads deployed_instances[tier_name].
DeployTierStep ==
    /\ dep.pc = "tiers" /\ dep.tier <= Len(deployment_order)
    /\ LET tier_name == deployment_order[dep.tier]
           tier      == application_tiers[tier_name]
           subnets   == IF tier.subnet_type = "public"
                        THEN dep.infrastructure.public_subnets
                        ELSE dep.infrastructure.private_subnets
           running   == Cardinality({i \in ec2.instances : i[1] = tier_name})
       IN  IF dep.strategy = "CANARY"
           THEN /\ dep' = [dep EXCEPT !.pc = "raised", !.exc = "KeyError",
                                      !.launched = <<>>]
                /\ UNCHANGED ec2
           ELSE IF subnets = 0
           THEN /\ dep' = [dep EXCEPT !.pc = "raised",
                                      !.exc = "ValueError: No subnets available",
                                      !.launched = <<>>]
                /\ UNCHANGED ec2
           ELSE \E launched \in 0..tier.min_instances,
                   wait \in {"running", "timeout", "client_error"} :
                   LET instances == [i \in 1..launched |-> <<tier_name, running + i>>]
                       placed == [i \in 1..launched |->
                                     [id |-> instances[i],
                                      subnet |-> (i - 1) % subnets]]
                       waited == IF dep.strategy = "ROLLING"
                                 THEN Put(dep.waited, tier_name, wait)
                                 ELSE dep.waited
                   IN  /\ ec2' = [ec2 EXCEPT !.instances =
                                     @ \cup {instances[i] : i \in 1..launched}]
                       /\ IF launched < tier.min_instances
                          THEN dep' = [dep EXCEPT !.pc = "raised",
                                                  !.exc = "ClientError: run_instances",
                                                  !.ec2_failed = TRUE,
                                                  !.launched = placed]
                          ELSE IF dep.strategy = "ROLLING" /\ wait = "client_error"
                          THEN dep' = [dep EXCEPT
                                         !.pc = "raised",
                                         !.exc = "ClientError: describe_instances",
                                         !.ec2_failed = TRUE,
                                         !.launched = placed, !.waited = waited,
                                         !.deployed_instances =
                                             Put(@, tier_name, instances)]
                          ELSE dep' = [dep EXCEPT
                                         !.tier = @ + 1,
                                         !.launched = placed, !.waited = waited,
                                         !.deployed_instances =
                                             Put(@, tier_name, instances)]
    /\ UNCHANGED <<reg, imp, bcu, img, pub, queue_urls, topic_arns, clog, thr,
                   hist, par, pso, sqs_queue, po, users_table, uu, now,
                   waf_log_bucket, wf, blacklist, ips, ana, life,
                   instance_state, wt, svc>>

DeployReturn ==
    /\ dep.pc = "tiers" /\ dep.tier > Len(deployment_order)
    /\ dep' = [dep EXCEPT !.pc = "returned"]
    /\ UNCHANGED <<reg, imp, bcu, img, pub, queue_urls, topic_arns, clog, thr,
                   hist, par, pso, sqs_queue, po, users_table, uu, ec2, now,
                   waf_log_bucket, wf, blacklist, ips, ana, life,
                   instance_state, wt, svc>>

(* ================ wait_for_instances_running (5f63...) ================ *)

\* the instances of the account
WaitInstances == {"i-1", "i-2"}

InstanceStates == {"pending", "running", "stopped"}

\* time.sleep(5)
poll_sleep == 5

\* a variant that is content with one running instance
AnyRunning(seen) == \E i \in DOMAIN seen : seen[i] = "running"

\* all_running after the loops over response['Reservations']
AllRunning(seen) == \A i \in DOMAIN seen : seen[i] = "running"

\* describe_instances(InstanceIds=instance_ids): the states of the listed
\* instances, and of every instance of the account for an empty list
DescribeInstances(instance_ids) ==
    [i \in (IF instance_ids = {} THEN WaitInstances ELSE instance_ids) |->
        instance_state[i]]

\* elapsed: time.time() - start_time; polled: describe_instances answered at
\* least once; seen: what it answered last
WtIdle ==
    [pc |-> "idle", instance_ids |-> {}, timeout |-> 0, elapsed |-> 0,
     polled |-> FALSE, seen |-> [i \in {} |-> "pending"], result |-> FALSE]

CallWaitForInstancesRunning ==
    /\ wt.pc \in {"idle", "returned", "raised"}
    /\ \E instance_ids \in SUBSET WaitInstances, timeout \in 0..MaxTimeout :
          wt' = [WtIdle EXCEPT !.pc = "polling", !.instance_ids = instance_ids,
                               !.timeout = timeout]
    /\ UNCHANGED <<reg, imp, bcu, img, pub, queue_urls, topic_arns, clog, thr,
                   hist, par, pso, sqs_queue, po, users_table, uu, ec2, dep,
                   now, waf_log_bucket, wf, blacklist, ips, ana, life,
                   instance_state, svc>>

\* one iteration of the while loop: describe_instances, which may raise;
\* return True when every reported instance is running, else sleep
Poll ==
    /\ wt.pc = "polling" /\ wt.elapsed < wt.timeout
    /\ \E out \in Ec2Outcomes :
          LET seen == DescribeInstances(wt.instance_ids)
          IN  wt' = IF out = "client_error"
                    THEN [wt EXCEPT !.pc = "raised"]
                    ELSE IF AllRunning(seen)
                    THEN [wt EXCEPT !.pc = "returned", !.polled = TRUE,
                                    !.seen = seen, !.result = TRUE]
                    ELSE [wt EXCEPT !.polled = TRUE, !.seen = seen,
                                    !.elapsed = @ + poll_sleep]
    /\ UNCHANGED <<reg, imp, bcu, img, pub, queue_urls, topic_arns, clog, thr,
                   hist, par, pso, sqs_queue, po, users_table, uu, ec2, dep,
                   now, waf_log_bucket, wf, blacklist, ips, ana, life,
                   instance_state, svc>>

\* the loop condition fails: log the timeout and return False
TimeoutReturn ==
    /\ wt.pc = "polling" /\ wt.elapsed >= wt.timeout
    /\ wt' = [wt EXCEPT !.pc = "returned", !.result = FALSE]
    /\ UNCHANGED <<reg, imp, bcu, img, pub, queue_urls, topic_arns, clog, thr,
                   hist, par, pso, sqs_queue, po, users_table, uu, ec2, dep,
                   now, waf_log_bucket, wf, blacklist, ips, ana, life,
                   instance_state, svc>>

\* an instance changes its state
InstanceChange ==
    /\ \E i \in WaitInstances, st \in InstanceStates :
          /\ instance_state[i] # st
          /\ instance_state' = [instance_state EXCEPT ![i] = st]
    /\ UNCHANGED <<reg, imp, bcu, img, pub, queue_urls, topic_arns, clog, thr,
                   hist, par, pso, sqs_queue, po, users_table, uu, ec2, dep,
                   now, waf_log_bucket, wf, blacklist, ips, ana, life, wt, svc>>

(* ================== analyze_threat_patterns (d35d...) ================== *)

\* A string whose characters matter is the sequence of its characters.

\* the lower-case letter of each upper-case letter
ascii_lowercase ==
    [A |-> "a", B |-> "b", C |-> "c", D |-> "d", E |-> "e", F |-> "f",
     G |-> "g", H |-> "h", I |-> "i", J |-> "j", K |-> "k", L |-> "l",
     M |-> "m", N |-> "n", O |-> "o", P |-> "p", Q |-> "q", R |-> "r",
     S |-> "s", T |-> "t", U |-> "u", V |-> "v", W |-> "w", X |-> "x",
     Y |-> "y", Z |-> "z"]

\* str.lower()
RECURSIVE Lower(_)
Lower(s) ==
    IF s = <<>> THEN <<>>
    ELSE <<IF Head(s) \in DOMAIN ascii_lowercase
           THEN ascii_lowercase[Head(s)] ELSE Head(s)>> \o Lower(Tail(s))

\* p in s
Contains(s, p) ==
    \E i \in 1..(Len(s) - Len(p) + 1) : SubSeq(s, i, i + Len(p) - 1) = p

\* s.endswith(p)
EndsWith(s, p) ==
    Len(p) <= Len(s) /\ SubSeq(s, Len(s) - Len(p) + 1, Len(s)) = p

\* the branch of the if/elif chain an entry takes: the attack pattern it is
\* counted under, or None
AttackPattern(entry) ==
    LET combined_input == Lower(entry.uri \o <<" ">> \o entry.args)
        sql == {<<"u", "n", "i", "o", "n", " ", "s", "e", "l", "e", "c", "t">>,
                <<"o", "r", " ", "1", "=", "1">>,
                <<"'", ";", " ", "d", "r", "o", "p">>}
        xss == {<<"<", "s", "c", "r", "i", "p", "t", ">">>,
                <<"j", "a", "v", "a", "s", "c", "r", "i", "p", "t", ":">>,
                <<"o", "n", "e", "r", "r", "o", "r", "=">>}
        guarded == {<<"/", "l", "o", "g", "i", "n">>, <<"/", "a", "d", "m", "i", "n">>,
                    <<"/", "w", "p", "-", "a", "d", "m", "i", "n">>}
    IN  IF \E pattern \in sql : Contains(combined_input, pattern)
        THEN "sql_injection"
        ELSE IF \E pattern \in xss : Contains(combined_input, pattern)
        THEN "xss_attempts"
        ELSE IF entry.uri \in guarded /\ entry.args # <<>>
        THEN "brute_force"
        ELSE IF EndsWith(entry.uri, <<".", "p", "h", "p">>) \/ Contains(entry.uri, <<".", ".">>)
        THEN "scanning"
        ELSE None

\* a variant that sets a counter to 1 where the code adds 1
TallyOnce(log, S, field) == [v \in {log[i][field] : i \in S} |-> 1]

\* the counters by client IP or by country: for each value of the field among
\* the entries at the positions S, the number of those entries
Tally(log, S, field) ==
    [v \in {log[i][field] : i \in S} |->
        Cardinality({i \in S : log[i][field] = v})]

\* the threat_analysis of a log: a log of n entries is n lines, read back as n
\* entries (an empty log is the empty string, read back as no entry); an
\* entry without country counts under 'Unknown'
AnalyzeThreatPatterns(log) ==
    LET entries == [i \in 1..Len(log) |->
                       [log[i] EXCEPT !.country =
                           IF @ = Missing THEN "Unknown" ELSE @]]
        blocked == {i \in 1..Len(log) : log[i].action = "BLOCK"}
        count(pattern) ==
            Cardinality({i \in 1..Len(log) : AttackPattern(log[i]) = pattern})
    IN  [total_requests   |-> Len(log),
         blocked_requests |-> Cardinality(blocked),
         suspicious_ips   |-> Tally(entries, blocked, "clientIp"),
         attack_patterns  |->
             [sql_injection |-> count("sql_injection"),
              xss_attempts  |-> count("xss_attempts"),
              brute_force   |-> count("brute_force"),
              scanning      |-> count("scanning")],
         top_blocked_countries |-> Tally(entries, blocked, "country")]

\* the log entries analysed: blocked or allowed requests of one client to
\* /login, /home or /x.php with these query strings, and requests of a
\* second client that carry no country
LogEntries ==
    [action : {"BLOCK", "ALLOW"}, clientIp : {"192.0.2.1"}, country : {"US"},
     uri  : {<<"/", "l", "o", "g", "i", "n">>, <<"/", "h", "o", "m", "e">>,
             <<"/", "x", ".", "p", "h", "p">>},
     args : {<<>>,
             <<"u", "s", "e", "r", "n", "a", "m", "e", "=", "a", "d", "m", "i", "n", "'", " ", "O", "R", " ", "'", "1", "'", "=", "'", "1">>,
             <<"i", "d", "=", "1", " ", "O", "R", " ", "1", "=", "1">>,
             <<"q", "=", "<", "s", "c", "r", "i", "p", "t", ">">>,
             <<"u", "s", "e", "r", "=", "b", "o", "b">>}]
    \cup [action : {"BLOCK", "ALLOW"}, clientIp : {"192.0.2.2"},
          country : {Missing}, uri : {<<"/", "h", "o", "m", "e">>}, args : {<<>>}]

AnaIdle ==
    [pc |-> "idle", log |-> <<>>, threat_analysis |-> AnalyzeThreatPatterns(<<>>)]

\* analyze_threat_patterns on the object of a log
CallAnalyzeThreatPatterns ==
    /\ ana.pc = "idle"
    /\ \E log \in SeqsUpTo(LogEntries, MaxLog) :
          ana' = [pc |-> "returned", log |-> log,
                  threat_analysis |-> AnalyzeThreatPatterns(log)]
    /\ UNCHANGED <<reg, imp, bcu, img, pub, queue_urls, topic_arns, clog, thr,
                   hist, par, pso, sqs_queue, po, users_table, uu, ec2, dep,
                   now, waf_log_bucket, wf, blacklist, ips, life,
                   instance_state, wt, svc>>

(* ================= update_ip_sets_from_analysis (d35d...) ================= *)

\* block_threshold: int = 10
block_threshold == 10

SuspiciousIps == {"192.0.2.1", "192.0.2.2"}

\* the suspicious_ips of a threat analysis: blocked counts by client IP
SuspiciousIpCounts == UNION {[d -> {5, 10, 15}] : d \in SUBSET SuspiciousIps}

WafOutcomes == {"ok", "exception"}

\* f"{ip}/32" for the IPs blocked at least threshold times
IpsToBlock(suspicious_ips, threshold) ==
    {<<ip, 32>> : ip \in {i \in DOMAIN suspicious_ips :
                            suspicious_ips[i] >= threshold}}

(* ============ process_security_automation_workflow (d35d...) ============ *)

Workflows == {"A", "B"}

\* the logs the workflows are called with: up to MaxLog blocked requests, six
\* blocked requests, and one allowed request
WorkflowLogs ==
    LET entry(action) == [action |-> action, clientIp |-> "192.0.2.1",
                          country |-> "US", uri |-> <<"/", "h", "o", "m", "e">>, args |-> <<>>]
    IN  {[i \in 1..n |-> entry("BLOCK")] : n \in (0..MaxLog) \cup {6}}
            \cup {<<entry("ALLOW")>>}

\* strftime('%Y/%m/%d/%H') of the clock
Hour(t) == t \div HourLength

S3Outcomes == {"ok", "exception"}

WfIdle ==
    [pc |-> "idle", log_entries |-> <<>>, log_upload_success |-> FALSE,
     log_key |-> <<>>, threat_analysis_completed |-> FALSE, total_requests |-> 0,
     blocked_requests |-> 0, ip_sets_updated |-> FALSE,
     notification_sent |-> FALSE]

\* time passes
Tick ==
    /\ now < MaxTime
    /\ now' = now + 1
    /\ UNCHANGED <<reg, imp, bcu, img, pub, queue_urls, topic_arns, clog, thr,
                   hist, par, pso, sqs_queue, po, users_table, uu, ec2, dep,
                   waf_log_bucket, wf, blacklist, ips, ana, life,
                   instance_state, wt, svc>>

\* step 1, upload_waf_logs: put_object under the key of the hour and the
\* second of the clock, <<hour, second>>
UploadWafLogs(w) ==
    /\ wf[w].pc = "idle"
    /\ \E log_entries \in WorkflowLogs, out \in S3Outcomes :
          IF out = "ok"
          THEN /\ waf_log_bucket' =
                     Put(waf_log_bucket, <<Hour(now), now>>,
                         [log |-> log_entries, LastModified |-> now])
               /\ wf' = [wf EXCEPT ![w] = [@ EXCEPT !.pc = "uploaded",
                                                    !.log_entries = log_entries,
                                                    !.log_upload_success = TRUE]]
          ELSE /\ wf' = [wf EXCEPT ![w] = [@ EXCEPT !.pc = "returned",
                                                    !.log_entries = log_entries]]
               /\ UNCHANGED waf_log_bucket
    /\ UNCHANGED <<reg, imp, bcu, img, pub, queue_urls, topic_arns, clog, thr,
                   hist, par, pso, sqs_queue, po, users_table, uu, ec2, dep,
                   now, blacklist, ips, ana, life, instance_state, wt, svc>>

\* sorted(objects['Contents'], key=LastModified)[-1]['Key'] of the objects
\* under the prefix of the hour; the listing is in key order and the sort is
\* stable, so of the objects modified last the one with the greatest key
LatestLog(bucket, hour) ==
    LET Contents == {k \in DOMAIN bucket : k[1] = hour}
    IN  CHOOSE k \in Contents :
            \A o \in Contents :
                \/ bucket[o].LastModified < bucket[k].LastModified
                \/ bucket[o].LastModified = bucket[k].LastModified /\ o[2] <= k[2]

\* step 2: list the objects under the prefix of the current hour and take
\* the most recent one
FindLog(w) ==
    /\ wf[w].pc = "uploaded"
    /\ \E out \in S3Outcomes :
          IF out = "ok" /\ \E k \in DOMAIN waf_log_bucket : k[1] = Hour(now)
          THEN wf' = [wf EXCEPT ![w] =
                        [@ EXCEPT !.pc = "found",
                                  !.log_key = LatestLog(waf_log_bucket, Hour(now))]]
          ELSE wf' = [wf EXCEPT ![w] = [@ EXCEPT !.pc = "returned"]]
    /\ UNCHANGED <<reg, imp, bcu, img, pub, queue_urls, topic_arns, clog, thr,
                   hist, par, pso, sqs_queue, po, users_table, uu, ec2, dep,
                   now, waf_log_bucket, blacklist, ips, ana, life,
                   instance_state, wt, svc>>

\* a variant that notifies whatever was blocked
SignificantAlways(threat_analysis) == TRUE

\* if threat_analysis.get('blocked_requests', 0) > 5
Significant(threat_analysis) == threat_analysis.blocked_requests > 5

\* steps 3 to 5: analyze_threat_patterns(log_key), {} when it fails; with a
\* blocked request update_ip_sets_from_analysis, which adds the IPs over the
\* threshold to the blacklist when WAF answers and returns True; for
\* significant threats send_security_notification, False when SNS fails
Analyze(w) ==
    /\ wf[w].pc = "found"
    /\ LET threat_analysis ==
               AnalyzeThreatPatterns(waf_log_bucket[wf[w].log_key].log)
           detected == threat_analysis.blocked_requests > 0
           ips_to_block ==
               IpsToBlock(threat_analysis.suspicious_ips, block_threshold)
           result ==
               [wf[w] EXCEPT !.pc = "returned",
                             !.threat_analysis_completed = TRUE,
                             !.total_requests = threat_analysis.total_requests,
                             !.blocked_requests = threat_analysis.blocked_requests,
                             !.ip_sets_updated = detected]
       IN  \E out \in S3Outcomes, waf \in WafOutcomes, sent \in BOOLEAN :
              IF out = "ok"
              THEN /\ wf' = [wf EXCEPT ![w] =
                               [result EXCEPT !.notification_sent =
                                   detected /\ Significant(threat_analysis)
                                       /\ sent]]
                   /\ blacklist' = IF detected /\ waf = "ok"
                                   THEN blacklist \cup ips_to_block
                                   ELSE blacklist
              ELSE /\ wf' = [wf EXCEPT ![w] = [@ EXCEPT !.pc = "returned"]]
                   /\ UNCHANGED blacklist
    /\ UNCHANGED blacklist
    /\ UNCHANGED <<reg, imp, bcu, img, pub, queue_urls, topic_arns, clog, thr,
                   hist, par, pso, sqs_queue, po, users_table, uu, ec2, dep,
                   now, waf_log_bucket, ips, ana, life, instance_state, wt,
                   svc>>

(* ----------- update_ip_sets_from_analysis as a call of its own ----------- *)

IpsIdle ==
    [pc |-> "idle", suspicious_ips |-> [i \in {} |-> 0], before |-> {},
     get |-> None, update |-> None, result |-> FALSE]

\* update_ip_sets_from_analysis(threat_analysis): get_ip_set, merge,
\* update_ip_set. A failed get_ip_set leaves no addresses and the lock token
\* "dummy-token", which update_ip_set rejects; a failed update_ip_set is
\* logged as a warning.
CallUpdateIpSets ==
    /\ \E suspicious_ips \in SuspiciousIpCounts, get \in WafOutcomes,
          update \in WafOutcomes :
          LET ips_to_block == IpsToBlock(suspicious_ips, block_threshold)
              current_addresses == IF get = "ok" THEN blacklist ELSE {}
              updated_addresses == current_addresses \cup ips_to_block
              called == ips_to_block # {}
              updated == called /\ get = "ok" /\ update = "ok"
          IN  /\ blacklist' = IF updated THEN updated_addresses ELSE blacklist
              /\ ips' = [pc |-> "returned", suspicious_ips |-> suspicious_ips,
                         before |-> blacklist,
                         get |-> IF called THEN get ELSE None,
                         update |-> IF called /\ updated THEN "ok"
                                    ELSE IF called THEN "exception" ELSE None,
                         result |-> TRUE]
    /\ UNCHANGED <<reg, imp, bcu, img, pub, queue_urls, topic_arns, clog, thr,
                   hist, par, pso, sqs_queue, po, users_table, uu, ec2, dep,
                   now, waf_log_bucket, wf, ana, life, instance_state, wt, svc>>

(* ----------------------------- specifications ----------------------------- *)

Init ==
    /\ reg = RegIdle /\ imp = ImpIdle /\ bcu = BcuIdle /\ img = ImgIdle
    /\ pub = PubIdle
    /\ queue_urls = EmptyCache /\ topic_arns = EmptyCache /\ clog = <<>>
    /\ thr = [t \in Threads |-> ThreadIdle] /\ hist = HistInit
    /\ par = ParIdle
    /\ pso = PsoIdle /\ sqs_queue = <<>> /\ po = PoIdle
    /\ users_table = [id \in {} |-> Missing] /\ uu = UuIdle
    /\ ec2 = [security_groups |-> {}, instances |-> {}, deploys |-> 0]
    /\ dep = DepIdle
    /\ now = 0 /\ waf_log_bucket = [k \in {} |-> Missing]
    /\ wf = [w \in Workflows |-> WfIdle]
    /\ blacklist = {} /\ ips = IpsIdle /\ ana = AnaIdle
    /\ life = LifeIdle
    /\ instance_state = [i \in WaitInstances |-> "pending"] /\ wt = WtIdle
    /\ svc = SvcIdle

\* one call of one of the sequential batch operations
NextBatch ==
    \/ CallBulkRegisterUsers \/ BulkRegisterStep \/ BulkRegisterReturn
    \/ CallBulkImportMovies \/ BulkImportStep \/ BulkImportReturn
    \/ CallBatchCreateUsers \/ BatchCreateStep \/ BatchCreateReturn
    \/ CallProcessImageBatch \/ ProcessImageStep \/ ProcessImageReturn
    \/ CallBatchPublishTransactions \/ PublishStep \/ PublishReturn

SpecBatch == Init /\ [][NextBatch]_vars

\* the caches of one OrderProcessingSystem, called by one thread of control
NextCache == CallGetQueueUrl \/ CallGetTopicArn \/ CallInvalidate

SpecCache == Init /\ [][NextCache]_vars

\* get_queue_url of one OrderProcessingSystem, called by several threads
NextThreads ==
    \E t \in Threads : Begin(t) \/ Test(t) \/ CallSqs(t) \/ Store(t) \/ Return(t)

SpecThreads == Init /\ [][NextThreads]_vars

\* runBatch on parallel workers
NextParallel == CallRunBatch \/ Dispatch \/ Complete \/ ReturnReport

SpecParallel == Init /\ [][NextParallel]_vars

\* runBatch on parallel workers with a cancellation token
NextCancel == CallRunBatch \/ Dispatch \/ Complete \/ Cancel \/ ReturnReport

SpecCancel == Init /\ [][NextCancel]_vars

\* one call of bulk_register_users or one call of runBatch
NextEmptyBatch ==
    \/ par.pc = "idle" /\ CallBulkRegisterUsers
    \/ par.pc = "idle" /\ BulkRegisterStep
    \/ par.pc = "idle" /\ BulkRegisterReturn
    \/ reg.pc = "idle" /\ CallRunBatch
    \/ reg.pc = "idle" /\ Dispatch
    \/ reg.pc = "idle" /\ Complete
    \/ reg.pc = "idle" /\ ReturnReport

SpecEmptyBatch == Init /\ [][NextEmptyBatch]_vars

\* one call of _process_single_order
NextSingleOrder == CallProcessSingleOrder

SpecSingleOrder == Init /\ [][NextSingleOrder]_vars

\* orders are submitted, then process_orders runs once
NextOrders ==
    \/ SubmitOrder \/ CallProcessOrders \/ ProcessOrderStep
    \/ ProcessOrdersReturn \/ VisibilityTimeout

SpecOrders == Init /\ [][NextOrders]_vars

\* the same with another producer on the queue
NextForeignOrders ==
    \/ SubmitOrder \/ ForeignMessage \/ CallProcessOrders \/ ProcessOrderStep
    \/ ProcessOrdersReturn \/ VisibilityTimeout

SpecForeignOrders == Init /\ [][NextForeignOrders]_vars

\* calls on the users table, one after the other
NextUsers == CallCreateUser \/ CallUpdateUser \/ CallDeleteUser \/ CallGetUser

SpecUsers == Init /\ [][NextUsers]_vars

\* runs of simulate_user_lifecycle on a table other calls have filled, each
\* followed by calls of get_user
NextLifecycle ==
    \/ life.pc = "idle" /\ CallCreateUser
    \/ CallSimulateUserLifecycle
    \/ LifecycleStep
    \/ LifecycleReturn
    \/ life.pc = "returned" /\ CallGetUser

SpecLifecycle == Init /\ [][NextLifecycle]_vars

\* deployments into one VPC, one after the other
NextDeploy == CallDeployFullApplication \/ DeployTierStep \/ DeployReturn

SpecDeploy == Init /\ [][NextDeploy]_vars

\* a MovieCatalogService: bulk imports (each on a new instance) and single
\* calls on the instance of the last import
NextCatalog ==
    \/ CallBulkImportMovies \/ BulkImportStep \/ BulkImportReturn
    \/ CallAddMovieViaApi \/ CallDiscoverApiEndpoint \/ CallHealthCheck

SpecCatalog == Init /\ [][NextCatalog]_vars

\* calls of wait_for_instances_running while the instances change state
NextWait == CallWaitForInstancesRunning \/ Poll \/ TimeoutReturn \/ InstanceChange

\* a caller that is running goes on running
SpecWait ==
    Init /\ [][NextWait]_vars /\ WF_vars(Poll) /\ WF_vars(TimeoutReturn)

\* one call of analyze_threat_patterns
NextAnalysis == CallAnalyzeThreatPatterns

SpecAnalysis == Init /\ [][NextAnalysis]_vars

\* two workflows on one bucket, their steps interleaved, while time passes
NextWaf ==
    \/ Tick
    \/ \E w \in Workflows : UploadWafLogs(w) \/ FindLog(w) \/ Analyze(w)

SpecWaf == Init /\ [][NextWaf]_vars

\* one workflow, and uploads of another client to the same bucket
NextWorkflow ==
    \/ Tick
    \/ UploadWafLogs("A") \/ FindLog("A") \/ Analyze("A")
    \/ UploadWafLogs("B")

SpecWorkflow == Init /\ [][NextWorkflow]_vars

\* calls of update_ip_sets_from_analysis, one after the other
NextIpSets == CallUpdateIpSets

SpecIpSets == Init /\ [][NextIpSets]_vars

(* ================================ claims ================================ *)

Identity(n) == [i \in 1..n |-> i]

(* C1. Batch isolation: a batch call never raises, whatever makes an item    *)
(* fail (an item without the fields the operation expects included), and when *)
(* it has returned every item of the input has been attempted, in order.      *)
C1_BatchIsolation ==
    /\ reg.pc # "raised" /\ imp.pc # "raised"
    /\ reg.pc = "returned" => reg.attempted = Identity(Len(reg.users))
    /\ imp.pc = "returned" => imp.attempted = Identity(Len(imp.movies))

(* C2. Batch accounting: every batch call on N items ends with a report of    *)
(* exactly N outcomes: len(successful) + len(failed) = total_processed =      *)
(* len(users) for bulk_register_users, len(successful) + len(failed) =        *)
(* len(users) for batch_create_users, success + failed = len(movies) and      *)
(* len(errors) = failed for bulk_import_movies.                               *)
C2_BatchAccounting ==
    /\ reg.pc \in {"returned", "raised"} =>
          /\ reg.pc = "returned"
          /\ Len(reg.successful) + Len(reg.failed) = reg.total_processed
          /\ reg.total_processed = Len(reg.users)
    /\ imp.pc \in {"returned", "raised"} =>
          /\ imp.pc = "returned"
          /\ imp.success + imp.failed = Len(imp.movies)
          /\ Len(imp.errors) = imp.failed
    /\ bcu.pc = "returned" =>
          /\ bcu.success
          /\ Len(bcu.successful) + Len(bcu.failed) = Len(bcu.users)

\* the error an outcome entry carries, Missing when it has no such field
ErrorOf(entry) == IF "error" \in DOMAIN entry THEN entry.error ELSE Missing

(* C3. Outcome fidelity, on process_image_batch: outcome i is about input i;  *)
(* it is a success carrying the operation's result exactly when the operation *)
(* returned normally, and otherwise it is a failure with an empty result and  *)
(* the error populated.                                                       *)
C3_OutcomeFidelity ==
    img.pc = "returned" =>
        /\ Len(img.results) = Len(img.images)
        /\ \A i \in 1..Len(img.images) :
              LET o == img.results[i]
                  up == img.uploads[i]
              IN  /\ o.filename = img.images[i].filename
                  /\ o.upload_success = up.success
                  /\ up.success => o.key = up.key
                  /\ ~up.success => o.key = NoKey /\ ErrorOf(o) = up.error

\* ceil(n / batch_size)
NumChunks(n) == (n + batch_size - 1) \div batch_size

C10_ParallelOrder ==
    par.pc = "returned" =>
        LET r == par.report
        IN  /\ Len(r.outcomes) = Len(par.items)
            /\ \A i \in 1..Len(par.items) :
                  /\ r.outcomes[i].input = par.items[i]
                  /\ r.outcomes[i].index = i - 1
            /\ r.successCount + r.failureCount = Len(par.items)

\* a report returned after the workers finished out of input order
C10_Witness ==
    /\ par.pc = "returned"
    /\ Len(par.items) >= 3
    /\ par.completion # Identity(Len(par.items))
    /\ par.items[1] # par.items[2]
    /\ par.report.failureCount = 1

\* the calls that resolve a name
Resolves == {"get_queue_url", "get_topic_arn"}

\* calls i < j of the history are the same lookup of the same name
SameLookup(i, j) ==
    clog[i].op \in Resolves /\ clog[j].op = clog[i].op /\ clog[j].name = clog[i].name

\* the name of call i is not invalidated between calls i and j
NoInvalidateBetween(i, j) ==
    \A k \in (i + 1)..(j - 1) :
        ~(clog[k].op = "invalidate" /\ clog[i].op = "get_queue_url"
            /\ clog[k].name = clog[i].name)

(* C4. Cache memoization: with no invalidate in between, once a lookup of a   *)
(* name has succeeded the resolver is not invoked again for that name, and    *)
(* every later call returns the handle that the one invocation produced.      *)
C4_Memoized ==
    \A i \in 1..Len(clog) :
        clog[i].op \in Resolves /\ ~clog[i].raised =>
            /\ clog[i].invoked => clog[i].value = clog[i].resolved
            /\ \A j \in (i + 1)..Len(clog) :
                  SameLookup(i, j) /\ NoInvalidateBetween(i, j) =>
                      /\ ~clog[j].invoked /\ ~clog[j].raised
                      /\ clog[j].value = clog[i].value

\* a queue and a topic were each resolved once and then served from the cache
C4_Witness ==
    /\ \E i, j \in 1..Len(clog) :
          /\ i < j /\ SameLookup(i, j) /\ clog[i].op = "get_queue_url"
          /\ clog[i].invoked /\ ~clog[i].raised /\ ~clog[j].invoked
    /\ \E i, j \in 1..Len(clog) :
          /\ i < j /\ SameLookup(i, j) /\ clog[i].op = "get_topic_arn"
          /\ clog[i].invoked /\ ~clog[i].raised /\ ~clog[j].invoked

\* call j is the first lookup of call i's name after call i
NextLookup(i, j) ==
    /\ i < j /\ SameLookup(i, j)
    /\ \A k \in (i + 1)..(j - 1) : ~SameLookup(i, k)

(* C5. Failures are not memoized: a lookup whose resolver fails raises and    *)
(* leaves the mapping exactly as it was, the name absent; the next lookup of  *)
(* the name invokes the resolver again and returns its handle if it succeeds. *)
C5_FailureNotMemoized ==
    \A i \in 1..Len(clog) :
        clog[i].op \in Resolves /\ clog[i].raised =>
            /\ clog[i].invoked /\ clog[i].value = NoHandle
            /\ clog[i].after = clog[i].before
            /\ clog[i].name \notin DOMAIN clog[i].after
            /\ \A j \in 1..Len(clog) :
                  NextLookup(i, j) =>
                      /\ clog[j].invoked
                      /\ clog[j].resolved # NoHandle =>
                            ~clog[j].raised /\ clog[j].value = clog[j].resolved

\* a lookup failed while another name was cached, and the retry succeeded
C5_Witness ==
    \E i, j \in 1..Len(clog) :
        /\ NextLookup(i, j)
        /\ clog[i].raised /\ clog[i].before # EmptyCache
        /\ ~clog[j].raised /\ clog[j].after[clog[j].name] = clog[j].resolved

\* the calls made on the queue cache
OnQueueCache(i) == clog[i].op \in {"get_queue_url", "invalidate"}

AllReturned == \A t \in Threads : thr[t].pc = "idle"

(* C7. Concurrent convergence: threads racing on a name that is not cached    *)
(* may each invoke the resolver, but once all calls have returned the mapping *)
(* holds an entry for every name a call returned a handle for, the entry is   *)
(* a handle some resolver invocation for that name returned, and the entries  *)
(* of the other names stored so far are still there.                          *)
C7_Convergence ==
    AllReturned =>
        /\ \A c \in hist.done : ~c.raised => c.name \in DOMAIN queue_urls
        /\ \A n \in DOMAIN queue_urls : queue_urls[n] \in hist.resolved[n]
        /\ DOMAIN queue_urls = hist.stored

\* both threads resolved "orders" themselves and got different URLs, and
\* "dlq" was cached as well
C7_Witness ==
    /\ AllReturned
    /\ Cardinality(hist.resolved["orders"]) = 2
    /\ \E c, d \in hist.done :
          c.thread # d.thread /\ c.name = "orders" /\ d.name = "orders"
              /\ c.call = 1 /\ d.call = 1 /\ ~c.raised /\ ~d.raised
    /\ "dlq" \in DOMAIN queue_urls

(* C8 as stated. Stable view: once a call has returned handle h for a name,   *)
(* every call for that name that begins afterwards returns h, in every        *)
(* interleaving, also when two resolver invocations return different handles. *)
C8_StableView ==
    \A c \in hist.done : \A h \in c.prior : ~c.raised /\ c.value = h

(* C8 as amended. Once a name is cached and no first-time resolution of it is *)
(* still between its membership test and its store, every call for the name   *)
(* that begins afterwards returns the one handle the mapping then holds; that *)
(* handle is not replaced any more.                                           *)
C8_StableOnceSettled ==
    \A c \in hist.done :
        c.settled =>
            /\ ~c.raised
            /\ c.value = queue_urls[c.name]
            /\ \A d \in hist.done : d.settled /\ d.name = c.name => d.value = c.value

\* a call that began after a race in which the two resolver invocations
\* returned different URLs, and after the race was over
C8_Witness ==
    \E c \in hist.done :
        /\ c.settled /\ Cardinality(hist.resolved[c.name]) = 2
        /\ Cardinality(c.prior) = 2

(* C11. Empty batch: bulk_register_users([]) returns, without a division     *)
(* error, total_processed 0, empty successful and failed lists and success    *)
(* rate 0, and registers nobody; runBatch([]) dispatches nothing and returns  *)
(* outcomes = [], successCount = 0, failureCount = 0 and successRate 0.       *)
C11_EmptyBatch ==
    /\ reg.pc # "idle" /\ reg.users = <<>> => reg.pc # "raised"
    /\ reg.pc = "returned" /\ reg.users = <<>> =>
          /\ reg.total_processed = 0
          /\ reg.successful = <<>> /\ reg.failed = <<>>
          /\ reg.attempted = <<>>
          /\ reg.success_rate[1] = 0 /\ reg.success_rate[2] # 0
    /\ par.pc # "idle" /\ par.items = <<>> =>
          par.dispatched = 0 /\ par.completion = <<>>
    /\ par.pc = "returned" /\ par.items = <<>> =>
          /\ par.report.outcomes = <<>>
          /\ par.report.successCount = 0 /\ par.report.failureCount = 0
          /\ successRate(par.report)[1] = 0 /\ successRate(par.report)[2] # 0

\* runBatch([]) has returned
C11_Witness == par.pc = "returned" /\ par.items = <<>> /\ par.report = NoReport

\* call j is the first get_queue_url of call i's name after call i
NextResolve(i, j) ==
    /\ i < j /\ clog[j].op = "get_queue_url" /\ clog[j].name = clog[i].name
    /\ \A k \in (i + 1)..(j - 1) :
          ~(clog[k].op = "get_queue_url" /\ clog[k].name = clog[i].name)

(* C12. invalidate(name) removes the entry of name if there is one and leaves *)
(* every other entry as it was; size() drops by one exactly when the entry    *)
(* was there; a second invalidate(name) right after changes nothing; and the  *)
(* next resolve of the name invokes the resolver again.                       *)
C12_Invalidate ==
    \A i \in 1..Len(clog) :
        clog[i].op = "invalidate" =>
            LET b == clog[i].before
                a == clog[i].after
                n == clog[i].name
            IN  /\ n \notin DOMAIN a
                /\ DOMAIN a = DOMAIN b \ {n}
                /\ \A m \in DOMAIN a : a[m] = b[m]
                /\ Size(a) = Size(b) - (IF n \in DOMAIN b THEN 1 ELSE 0)
                /\ Invalidate(a, n) = a
                /\ i < Len(clog) /\ clog[i + 1].op = "invalidate"
                        /\ clog[i + 1].name = n =>
                      clog[i + 1].after = a
                /\ \A j \in 1..Len(clog) : NextResolve(i, j) => clog[j].invoked

\* a cached name was invalidated while another name was cached, and the next
\* lookup of it asked SQS again
C12_Witness ==
    \E i, j \in 1..Len(clog) :
        /\ clog[i].op = "invalidate" /\ NextResolve(i, j)
        /\ clog[i].name \in DOMAIN clog[i].before
        /\ Size(clog[i].before) = 2 /\ Size(clog[i].after) = 1
        /\ clog[j].invoked /\ ~clog[j].raised

(* C13. Cancelled batch: no item is dispatched after the cancellation, and    *)
(* the batch still returns a report: its outcomes are those of the items      *)
(* that were attempted and of no other, outcome i is about input i, and       *)
(* successCount + failureCount is the number of outcomes.                     *)
C13_CancelledBatch ==
    /\ par.late = {}
    /\ par.pc = "returned" /\ par.cancelled =>
          LET r == par.report
          IN  /\ Len(r.outcomes) = par.dispatched
              /\ {r.outcomes[i].index + 1 : i \in 1..Len(r.outcomes)} =
                    {par.completion[k] : k \in 1..Len(par.completion)}
              /\ \A i \in 1..Len(r.outcomes) :
                    /\ r.outcomes[i].index = i - 1
                    /\ r.outcomes[i].input = par.items[i]
                    /\ r.outcomes[i] = ItemOutcome(i, par.items[i])
              /\ r.successCount + r.failureCount = Len(r.outcomes)

\* a batch cancelled with workers still running and items not yet dispatched
\* has returned its report
C13_Witness ==
    /\ par.pc = "returned" /\ par.cancelled
    /\ par.dispatched = 2 /\ Len(par.items) = 3
    /\ par.at_cancel = {1, 2} /\ par.completion = <<2, 1>>
    /\ par.report.failureCount = 1

\* the entry reports an order processed successfully
Succeeded(entry) ==
    "processing_result" \in DOMAIN entry /\ entry.processing_result.success

\* the received messages whose entry reports success
SucceededMessages ==
    {po.messages[k] : k \in {j \in 1..Len(po.processed_orders) :
                                Succeeded(po.processed_orders[j])}}

\* the messages process_orders received
ReceivedMessages == {po.messages[k] : k \in 1..Len(po.messages)}

MissingOrEmpty(o) == ~(required_fields \subseteq o.keys) \/ Len(o.items) = 0

\* some item has sku OUT-OF-STOCK or a quantity over 100
SomeItemUnavailable(o) ==
    \E i \in 1..Len(o.items) :
        \/ "sku" \in o.items[i].keys /\ o.items[i].sku = "OUT-OF-STOCK"
        \/ "quantity" \in o.items[i].keys /\ o.items[i].quantity > 100

\* some item cannot be checked: it has no sku, or it is not OUT-OF-STOCK and
\* has no quantity
SomeItemMalformed(o) ==
    \E i \in 1..Len(o.items) :
        \/ "sku" \notin o.items[i].keys
        \/ o.items[i].sku # "OUT-OF-STOCK" /\ "quantity" \notin o.items[i].keys

\* the dict of a successful order
IsProcessed(r) ==
    /\ r.success /\ r.status = "processed"
    /\ r.payment_id # Missing /\ r.shipping_label # Missing
    /\ r.stage = Missing

(* C15 as stated. _process_single_order reports the first failing stage: a   *)
(* missing required field or empty items gives 'validation'; otherwise an    *)
(* item with sku OUT-OF-STOCK or quantity > 100 gives 'inventory_check';     *)
(* otherwise total > 500 gives 'payment'; otherwise, and only then, the      *)
(* result is the success dict.                                               *)
C15_FirstFailingStage ==
    pso.pc = "returned" =>
        LET o == pso.order
            r == pso.result
        IN  IF MissingOrEmpty(o) THEN ~r.success /\ r.stage = "validation"
            ELSE IF SomeItemUnavailable(o)
            THEN ~r.success /\ r.stage = "inventory_check"
            ELSE IF o.total > 500 THEN ~r.success /\ r.stage = "payment"
            ELSE IsProcessed(r)

(* C15 as amended. _process_single_order reports the first failing stage: a  *)
(* missing required field or empty items gives 'validation'; otherwise an    *)
(* item that cannot be checked (no sku, or no quantity on an item that is    *)
(* not OUT-OF-STOCK) gives 'processing'; otherwise an item with sku          *)
(* OUT-OF-STOCK or quantity > 100 gives 'inventory_check'; otherwise total   *)
(* > 500 gives 'payment'; otherwise, and only then, the result is the        *)
(* success dict.                                                             *)
C15_FirstFailingStageOrProcessing ==
    pso.pc = "returned" =>
        LET o == pso.order
            r == pso.result
        IN  IF MissingOrEmpty(o) THEN ~r.success /\ r.stage = "validation"
            ELSE IF SomeItemMalformed(o) THEN ~r.success /\ r.stage = "processing"
            ELSE IF SomeItemUnavailable(o)
            THEN ~r.success /\ r.stage = "inventory_check"
            ELSE IF o.total > 500 THEN ~r.success /\ r.stage = "payment"
            ELSE IsProcessed(r)

\* a complete order with an item out of stock, another over the quantity
\* limit and a total over the payment limit fails at the inventory check
C15_Witness ==
    /\ pso.pc = "returned"
    /\ ~MissingOrEmpty(pso.order) /\ ~SomeItemMalformed(pso.order)
    /\ \E i, j \in 1..Len(pso.order.items) :
          /\ pso.order.items[i].sku = "OUT-OF-STOCK"
          /\ pso.order.items[j].sku # "OUT-OF-STOCK"
          /\ pso.order.items[j].quantity > 100
    /\ pso.order.total > 500
    /\ pso.result.stage = "inventory_check"

(* C16. update_user on a user id that is not in the table, with a field to   *)
(* update and DynamoDB answering, returns success False with the error       *)
(* 'User ... not found', and the table holds no record for the id            *)
(* afterwards.                                                               *)
C16_UpdateAbsentUserNotFound ==
    uu.op = "update_user" /\ ~uu.existed /\ uu.fields /\ uu.out = "ok" =>
        /\ ~uu.result.success
        /\ uu.result.error = "User not found"
        /\ uu.user_id \notin DOMAIN users_table

\* discover_infrastructure finds a VPC with a public and a private subnet
Discoverable(infra) ==
    infra.vpc /\ infra.public_subnets >= 1 /\ infra.private_subnets >= 1

(* C17. For every deployment strategy, deploy_full_application on a          *)
(* discoverable infrastructure (a VPC without security groups yet, EC2       *)
(* answering every call) returns a mapping with exactly the tiers web, app   *)
(* and db, each holding min_instances instance ids of that tier.             *)
C17_EveryStrategyDeploysAllTiers ==
    /\ dep.pc \in {"returned", "raised"}
    /\ Discoverable(dep.infrastructure) /\ dep.fresh /\ ~dep.ec2_failed
    => /\ dep.pc = "returned"
       /\ DOMAIN dep.deployed_instances = {"web", "app", "db"}
       /\ \A t \in DOMAIN dep.deployed_instances :
             /\ Len(dep.deployed_instances[t]) = application_tiers[t].min_instances
             /\ \A i \in 1..Len(dep.deployed_instances[t]) :
                   /\ dep.deployed_instances[t][i][1] = t
                   /\ dep.deployed_instances[t][i] \in ec2.instances

(* C18. The log a workflow analyses is the log it uploaded: a workflow that  *)
(* completed its threat analysis reports total_requests equal to the number  *)
(* of entries of its own log, whatever another workflow writes to the bucket *)
(* meanwhile or within the same second.                                      *)
C18_AnalysesOwnLog ==
    \A w \in Workflows :
        wf[w].pc = "returned" /\ wf[w].threat_analysis_completed =>
            wf[w].total_requests = Len(wf[w].log_entries)

\* the addresses a.b.c.d/32 of the IPs of ips.suspicious_ips blocked at least
\* n times
AtLeast(n) ==
    {<<ip, 32>> : ip \in {i \in DOMAIN ips.suspicious_ips :
                            ips.suspicious_ips[i] >= n}}

(* C19. Whenever update_ip_sets_from_analysis returns True, the blacklist    *)
(* holds ip/32 for every suspicious IP blocked at least block_threshold      *)
(* times, holds no address of an IP below the threshold that was not listed  *)
(* before, and still holds every address it held before the call.            *)
C19_TrueMeansBlacklisted ==
    ips.pc = "returned" /\ ips.result =>
        /\ AtLeast(10) \subseteq blacklist
        /\ (AtLeast(0) \ AtLeast(10)) \cap blacklist \subseteq ips.before
        /\ ips.before \subseteq blacklist

\* the query strings of the analysed entries that carry a tautology
TautologyArgs ==
    {<<"u", "s", "e", "r", "n", "a", "m", "e", "=", "a", "d", "m", "i", "n", "'", " ", "O", "R", " ", "'", "1", "'", "=", "'", "1">>,
     <<"i", "d", "=", "1", " ", "O", "R", " ", "1", "=", "1">>}

(* C20. analyze_threat_patterns counts under sql_injection every log entry   *)
(* whose args carry a SQL-injection tautology, the quoted form               *)
(* username=admin' OR '1'='1 included: sql_injection is at least the number  *)
(* of such entries, so at least 1 for a log that holds one.                  *)
C20_TautologiesCounted ==
    ana.pc = "returned" =>
        ana.threat_analysis.attack_patterns.sql_injection >=
            Cardinality({i \in 1..Len(ana.log) : ana.log[i].args \in TautologyArgs})

\* the names of the operations a lifecycle run performed, in order
OperationTypes == [i \in 1..Len(life.operations) |-> life.operations[i].operation]

SixOperations ==
    <<"create", "update_email", "upgrade_subscription", "deactivate",
      "reactivate", "delete">>

\* every operation of the run succeeded
AllSucceeded == \A i \in 1..Len(life.operations) : life.operations[i].success

\* the call of get_user that follows a returned run, for the run's user id,
\* with DynamoDB answering
CheckedAfterwards ==
    uu.op = "get_user" /\ uu.user_id = life.user_id /\ uu.out = "ok"

(* C21. Every returned run of simulate_user_lifecycle performed exactly the  *)
(* six operations create, update_email, upgrade_subscription, deactivate,    *)
(* reactivate, delete in this order, or its create failed and it stopped     *)
(* after that one operation with success False; and after a run in which     *)
(* all six succeeded get_user for the id reports not found.                  *)
C21_SixOperations ==
    life.pc = "returned" =>
        /\ \/ /\ OperationTypes = SixOperations /\ life.operations[1].success
              /\ life.success
           \/ /\ OperationTypes = <<"create">> /\ ~life.operations[1].success
              /\ ~life.success
        /\ OperationTypes = SixOperations /\ AllSucceeded /\ CheckedAfterwards
           => ~uu.result.success /\ uu.result.error = "User not found"

(* C21, amended. As C21, and a run on user data without 'UserId' performs no *)
(* operation and returns success False.                                      *)
C21_SixOperationsOrNone ==
    life.pc = "returned" =>
        /\ \/ /\ life.user_id # Missing
              /\ OperationTypes = SixOperations /\ life.operations[1].success
              /\ life.success
           \/ /\ life.user_id # Missing
              /\ OperationTypes = <<"create">> /\ ~life.operations[1].success
              /\ ~life.success
           \/ life.user_id = Missing /\ life.operations = <<>> /\ ~life.success
        /\ OperationTypes = SixOperations /\ AllSucceeded /\ CheckedAfterwards
           => ~uu.result.success /\ uu.result.error = "User not found"

C21_Witness ==
    /\ life.pc = "returned" /\ OperationTypes = SixOperations /\ AllSucceeded
    /\ CheckedAfterwards /\ ~uu.result.success

\* the calls the claim lists, as a step from the table before the call to the
\* record of the call
ListedFailure ==
    \/ uu'.op = "create_user" /\ uu'.user_id = Missing
    \/ uu'.op = "update_user" /\ ~uu'.fields
    \/ uu'.op = "update_user" /\ uu'.fields /\ uu'.out = "ok"
                              /\ uu'.user_id \notin DOMAIN users_table
    \/ uu'.op \in {"get_user", "delete_user"} /\ uu'.out = "ok"
                              /\ uu'.user_id \notin DOMAIN users_table

(* C28. create_user without UserId, update_user with no updatable field or   *)
(* for an absent id, and get_user or delete_user of an absent id leave the   *)
(* users table exactly as it was before the call.                            *)
C28_FailureLeavesTable ==
    [][ListedFailure => users_table' = users_table]_vars

\* the entries of all responses together
RECURSIVE TotalEntries(_)
TotalEntries(responses) ==
    IF responses = <<>> THEN 0
    ELSE Cardinality(Head(responses).Entries) + TotalEntries(Tail(responses))

(* C22. batch_publish_transactions sends its n transactions in consecutive   *)
(* chunks of at most 10, in input order, no transaction in two chunks; a     *)
(* call that returns has made ceil(n/10) put_events calls, which together    *)
(* carry every transaction, and returns one response per chunk, whose        *)
(* entries total n (no call and an empty list for n = 0).                    *)
C22_Chunks ==
    /\ \A k \in 1..Len(pub.sent) :
          /\ pub.sent[k] # {} /\ Cardinality(pub.sent[k]) <= 10
          /\ pub.sent[k] = {j \in 0..(pub.n - 1) : 10 * (k - 1) <= j /\ j < 10 * k}
          /\ \A l \in 1..Len(pub.sent) : l # k => pub.sent[l] \cap pub.sent[k] = {}
    /\ pub.pc = "returned" =>
          /\ Len(pub.sent) = NumChunks(pub.n)
          /\ UNION {pub.sent[k] : k \in 1..Len(pub.sent)} = 0..(pub.n - 1)
          /\ Len(pub.responses) = Len(pub.sent)
          /\ TotalEntries(pub.responses) = pub.n
          /\ pub.n = 0 => pub.sent = <<>> /\ pub.responses = <<>>

\* a returned call with two full chunks and a last chunk that is not full
C22_Witness ==
    /\ pub.pc = "returned" /\ pub.n > 20 /\ pub.n < 30
    /\ Len(pub.responses) = 3

\* what a run of wait_for_instances_running may have done: True only after a
\* poll that reported no instance that is not running, False only with the
\* timeout elapsed, and no poll after one that saw every listed instance
\* running
WaitSafe ==
    /\ wt.pc = "returned" /\ wt.result =>
          /\ wt.polled
          /\ \A i \in DOMAIN wt.seen : wt.seen[i] = "running"
          /\ wt.instance_ids \subseteq DOMAIN wt.seen
    /\ wt.pc = "returned" /\ ~wt.result => wt.elapsed >= wt.timeout
    /\ wt.pc = "polling" /\ wt.polled /\ wt.instance_ids # {} =>
          \E i \in wt.instance_ids : wt.seen[i] # "running"

(* C23. wait_for_instances_running always terminates; it returns True as     *)
(* soon as one poll sees every listed instance in state running and False    *)
(* once the timeout has elapsed without such a poll, and never returns True  *)
(* while an instance reported by that poll is not running.                   *)
C23_WaitTerminates ==
    /\ []WaitSafe
    /\ wt.pc = "polling" ~> wt.pc \in {"returned", "raised"}

\* a run that returned True after a poll that had seen an instance pending
C23_Witness ==
    /\ wt.pc = "returned" /\ wt.result /\ wt.elapsed > 0
    /\ wt.instance_ids = WaitInstances

(* C24. After one successful discovery no later call on the service lists   *)
(* the APIs again or changes api_endpoint, and a call of                     *)
(* discover_api_endpoint or health_check whose discovery failed leaves       *)
(* api_endpoint unset.                                                       *)
C24_EndpointCached ==
    /\ svc.op # None /\ svc.before # None =>
          ~svc.listed /\ svc.after = svc.before
    /\ svc.op \in {"discover_api_endpoint", "health_check"}
          /\ svc.before = None /\ ~svc.ok => svc.after = None

\* the tiers before tier t in the order db, app, web
Before(t) ==
    IF t = "db" THEN {} ELSE IF t = "app" THEN {"db"} ELSE {"db", "app"}

(* C25. With the ROLLING strategy the tiers are deployed in the order db,    *)
(* app, web, and no instance of a tier is launched before every instance of  *)
(* the previous tier has been observed in state running.                     *)
C25_RollingWaitsForRunning ==
    dep.strategy = "ROLLING" =>
        \A t \in DOMAIN dep.deployed_instances \cup
                 {dep.launched[i].id[1] : i \in 1..Len(dep.launched)} :
            \A b \in Before(t) :
                /\ b \in DOMAIN dep.deployed_instances
                /\ b \in DOMAIN dep.waited /\ dep.waited[b] = "running"

(* C30. deploy_application_tier is all-or-nothing: when it raises, no        *)
(* instance launched by that call is left in EC2; when it returns it has     *)
(* launched exactly min_instances instances, the i-th (from 0) in subnet     *)
(* i mod the number of subnets of the tier's type.                           *)
C30_AllOrNothing ==
    /\ dep.pc = "raised"
       /\ dep.exc \in {"ClientError: run_instances",
                       "ValueError: No subnets available"}
       => \A i \in 1..Len(dep.launched) : dep.launched[i].id \notin ec2.instances
    /\ dep.pc \in {"tiers", "returned"} /\ dep.launched # <<>> =>
          LET t == dep.launched[1].id[1]
              n == IF t = "web" THEN dep.infrastructure.public_subnets
                   ELSE dep.infrastructure.private_subnets
          IN  /\ Len(dep.launched) = (IF t = "db" THEN 1 ELSE 2)
              /\ \A i \in 1..Len(dep.launched) :
                    /\ dep.launched[i].id \in ec2.instances
                    /\ dep.launched[i].subnet = (i - 1) % n

\* handling the k-th received message ran into an exception: its body is
\* not JSON, its order has no order_id, or delete_message was called for it
\* and the message is still there
Excepted(k) ==
    LET m == po.messages[k]
    IN  \/ ~sqs_queue[m].json
        \/ "order_id" \notin sqs_queue[m].order.keys
        \/ /\ \E c \in 1..Len(po.delete_calls) : po.delete_calls[c] = m
           /\ sqs_queue[m].state # "deleted"

(* C27. process_orders returns exactly one entry per message received, in    *)
(* receive order, at most min(max_messages, 10) of them; the entry of a      *)
(* message whose handling ran into an exception (bad JSON body, missing      *)
(* order_id, failed delete) carries 'error', every other entry the           *)
(* processing result, and the messages after it are still handled.           *)
C27_OneEntryPerMessage ==
    /\ po.pc \in {"loop", "returned"} =>
          /\ Len(po.processed_orders) = po.i - 1
          /\ Len(po.messages) <= po.max_messages /\ Len(po.messages) <= 10
          /\ \A k \in 1..Len(po.processed_orders) :
                /\ po.processed_orders[k].message_id = po.messages[k]
                /\ "error" \in DOMAIN po.processed_orders[k] <=> Excepted(k)
                /\ "processing_result" \in DOMAIN po.processed_orders[k]
                      <=> ~Excepted(k)
    /\ po.pc = "returned" => Len(po.processed_orders) = Len(po.messages)

\* three messages were received: the first is not JSON, the second has no
\* order_id, and the third was processed
C27_Witness ==
    /\ po.pc = "returned" /\ Len(po.messages) = 3
    /\ ~sqs_queue[po.messages[1]].json
    /\ sqs_queue[po.messages[2]].json
    /\ "order_id" \notin sqs_queue[po.messages[2]].order.keys
    /\ "error" \in DOMAIN po.processed_orders[2]
    /\ Succeeded(po.processed_orders[3])

(* C26. Every result of process_security_automation_workflow satisfies:      *)
(* threat_analysis_completed implies log_upload_success and a log_key;       *)
(* ip_sets_updated implies threat_analysis_completed and blocked_requests    *)
(* > 0; notification_sent implies threat_analysis_completed and              *)
(* blocked_requests > 5. The workflow ends by returning a result.            *)
C26_ResultFlags ==
    \A w \in Workflows :
        /\ wf[w].pc \in {"idle", "uploaded", "found", "returned"}
        /\ wf[w].threat_analysis_completed =>
              wf[w].log_upload_success /\ wf[w].log_key # <<>>
        /\ wf[w].ip_sets_updated =>
              wf[w].threat_analysis_completed /\ wf[w].blocked_requests > 0
        /\ wf[w].notification_sent =>
              wf[w].threat_analysis_completed /\ wf[w].blocked_requests > 5

\* a workflow that analysed six blocked requests, updated the IP sets and
\* sent the notification
C26_Witness ==
    /\ wf["A"].pc = "returned" /\ wf["A"].notification_sent
    /\ wf["A"].ip_sets_updated /\ wf["A"].blocked_requests = 6

\* the sum of the counters of a mapping
RECURSIVE SumOf(_)
SumOf(counters) ==
    IF DOMAIN counters = {} THEN 0
    ELSE LET k == CHOOSE x \in DOMAIN counters : TRUE
         IN  counters[k] + SumOf([x \in DOMAIN counters \ {k} |-> counters[x]])

(* C29. In every result of analyze_threat_patterns blocked_requests equals   *)
(* the sum of the suspicious_ips counts and the sum of the                   *)
(* top_blocked_countries counts, blocked_requests <= total_requests, and     *)
(* the four attack_patterns counters together are <= total_requests.         *)
C29_CountersAgree ==
    ana.pc = "returned" =>
        LET r == ana.threat_analysis
        IN  /\ r.blocked_requests = SumOf(r.suspicious_ips)
            /\ r.blocked_requests = SumOf(r.top_blocked_countries)
            /\ r.blocked_requests <= r.total_requests
            /\ r.total_requests = Len(ana.log)
            /\ r.attack_patterns.sql_injection + r.attack_patterns.xss_attempts
                  + r.attack_patterns.brute_force + r.attack_patterns.scanning
                  <= r.total_requests

\* two blocked requests of one client, one of them matching two patterns'
\* conditions (a script in the query of a .php page)
C29_Witness ==
    /\ ana.pc = "returned" /\ Len(ana.log) = 2
    /\ ana.threat_analysis.blocked_requests = 2
    /\ DOMAIN ana.threat_analysis.suspicious_ips = {"192.0.2.1"}
    /\ \E i \in 1..2 :
          /\ ana.log[i].uri = <<"/", "x", ".", "p", "h", "p">>
          /\ ana.log[i].args = <<"q", "=", "<", "s", "c", "r", "i", "p", "t", ">">>
    /\ ana.threat_analysis.attack_patterns.xss_attempts >= 1

====
